---- MODULE Spec2Model ----
(***************************************************************************)
(* A model of mcp-test-kit's MCPTestClient (src/src/client/MCPTestClient.ts):*)
(* the connection lifecycle of one Session and its remote-call operations.  *)
(*                                                                         *)
(* Every public method is an async function.  Each action below is one     *)
(* synchronous segment of a method: from its invocation to its first await *)
(* (or to its return), or from the settling of the awaited promise to the  *)
(* method's end.  Several callers may have operations in flight at once.   *)
(* The protocol client (SDK Client), the stdio transport and the operating *)
(* system's processes are the environment: their outcomes are chosen       *)
(* nondeterministically.                                                   *)
(***************************************************************************)
EXTENDS Integers, Sequences, FiniteSets, TLC

\* ------------------------------------------------------------------ bounds
\* Processes that may be started in one behaviour (directly or by a transport).
MaxProcs == 4
\* The same under FairSpec, whose behaviours are checked for liveness: a
\* failed launch and one connection, which is what a call pending during
\* disconnect() needs.
MaxFairProcs == 3
\* The same under EnvSpec, which draws the environments: one connect().
MaxEnvProcs == 2
\* The same under SerialSpec, where operations do not overlap: a connect()
\* that fails and one that succeeds.
MaxSerialProcs == 4
\* The same under FactorySpec, where createMCPTestClient() makes the first
\* connection: that one and another after a disconnect().
MaxFactoryProcs == 4
\* The tools config.tools hands the constructor of a MockMCPServer.
MaxConfigTools == 2
\* The registrations of one mock server, the constructor's and addTool()'s.
MaxRegistrations == 3
\* The resources config.resources hands the constructor of a MockMCPServer.
MaxConfigResources == 1
\* The resource registrations of a MockMCPServer, the constructor's included.
MaxResourceRegistrations == 3
\* The same under EventSpec, where the spawned process emits events: a failed
\* launch and one connection.
MaxEventProcs == 3
\* The same under TimeoutSpec, where the configured timeout elapses: one
\* connect().
MaxTimeoutProcs == 2
\* The same under InfoSpec, where the handshake negotiates what it may: one
\* connect().
MaxInfoProcs == 2

\* The callers of the Session.  Each awaits its own operation before it invokes
\* the next; the two of them may have operations in flight at the same time,
\* which is what overlapping calls on one Session need.
Callers == {"c1", "c2"}

\* ------------------------------------------------------------------ state
VARIABLES
  argument,      \* the argument of the constructor, while it is under study
  config,        \* this.config, resolved by the constructor
  ambientEnv,    \* process.env of the program that uses the Session
  initialized,   \* this.initialized
  process,       \* this.process: 0 is null, otherwise an index of procs
  transport,     \* this.transport: 0 is null, otherwise an index of transports
  procs,         \* every OS process started so far: [owner, state]
  transports,    \* every StdioClientTransport constructed so far: [state, proc]
  clientTransport, \* the transport this.client is bound to (0: none)
  pc,            \* per caller: where its operation is suspended
  op,            \* per caller: the operation it is suspended in
  attempt,       \* per caller: the process and transport its operation holds
  ev,            \* the step taken last: who, what, its outcome, what it touched
  tools,         \* a MockMCPServer's this.tools: its entries in insertion order
  resources,     \* its this.resources, likewise
  registered,    \* every tool registration of that mock server so far, in order
  registeredResources, \* every resource registration so far, in order
  mockCall,      \* the callTool() or readResource() of the mock server in flight
  got,           \* the step of the mock server taken last and its outcome
  received,      \* the value a matcher is applied to
  expected,      \* the matcher's argument
  verdict        \* the matcher applied last and what it returned

mockVars == <<tools, resources, registered, registeredResources, mockCall, got>>

matcherVars == <<received, expected, verdict>>

vars == <<argument, config, ambientEnv, initialized, process, transport, procs,
          transports, clientTransport, pc, op, attempt, ev, mockVars,
          matcherVars>>

\* The Session, its processes and transports, its callers and its environment.
clientVars == <<argument, config, ambientEnv, initialized, process, transport, procs,
                transports, clientTransport, pc, op, attempt, ev>>

session == <<config, initialized, process, transport>>

\* What lies outside the Session and none of its operations touches.
outside == <<argument, ambientEnv, mockVars, matcherVars>>

\* ------------------------------------------------------------ configuration
TransportType == {"stdio", "sse", "http"}

\* What a caller may pass as config.transport: a TransportType or nothing.
TransportInputs == TransportType \cup {"undefined"}

\* config.transport || 'stdio'
ResolveTransport(t) == IF t = "undefined" THEN "stdio" ELSE t

\* The names and the values of environment variables.
EnvKeys == {"PATH", "DEBUG"}
EnvValues == {"a", "b"}

\* The value of an entry that is there and undefined.
UndefinedValue == "<undefined>"

\* The objects with keys among EnvKeys and values in vals.
Envs(vals) == UNION {[K -> vals] : K \in SUBSET EnvKeys}

\* process.env holds strings only.
AmbientEnvs == Envs(EnvValues)

\* {}
EmptyEnv == [k \in {} |-> UndefinedValue]

\* What a caller may pass as config.env: nothing, or a
\* Record<string, string | undefined>.
EnvInputs ==
  {[given |-> FALSE]} \cup
  {[given |-> TRUE, env |-> e] : e \in Envs(EnvValues \cup {UndefinedValue})}

\* config.env || {}
ResolveEnv(e) == IF e.given THEN e.env ELSE EmptyEnv

\* What a caller may pass as config.debug: a boolean or nothing.
DebugInputs == {"undefined", "false", "true"}

\* config.debug || false
ResolveDebug(d) == d = "true"

\* An optional field of the configuration: left out, or supplied with a value.
Omitted == [given |-> FALSE]
Supplied(v) == [given |-> TRUE, value |-> v]

\* What a caller may pass as config.args, config.timeout and config.serverUrl.
ArgsInputs == {Omitted} \cup {Supplied(a) : a \in {<<>>, <<"server.js">>}}
TimeoutInputs == {Omitted} \cup {Supplied(n) : n \in {0, 1, 5000, 30000}}
ServerUrlInputs == {Omitted} \cup {Supplied(u) : u \in {"", "http://host"}}

\* The timeout of a configuration that gives none.
DefaultTimeout == 5000

\* config.args || []: an array, empty or not, is truthy.
ResolveArgs(a) == IF a.given THEN a.value ELSE <<>>

\* config.timeout || 5000: the number 0 is falsy.
ResolveTimeout(n) == IF n.given /\ n.value # 0 THEN n.value ELSE DefaultTimeout

\* config.serverUrl || '': the empty string is falsy.
ResolveServerUrl(u) == IF u.given /\ u.value # "" THEN u.value ELSE ""

\* A configuration that gives the command and the transport and leaves the
\* rest out.
ConfigOf(t) ==
  [command |-> "node", args |-> Omitted, env |-> [given |-> FALSE],
   timeout |-> Omitted, transport |-> t, serverUrl |-> Omitted,
   debug |-> "undefined"]

\* The configurations a Session may be constructed from.
ConfigInputs ==
  [command : {"node"}, args : ArgsInputs, env : EnvInputs,
   timeout : TimeoutInputs, transport : TransportInputs,
   serverUrl : ServerUrlInputs, debug : DebugInputs]

\* The constructor: the resolved configuration.
Constructor(cfg) ==
  [command |-> cfg.command,
   args |-> ResolveArgs(cfg.args),
   env |-> ResolveEnv(cfg.env),
   timeout |-> ResolveTimeout(cfg.timeout),
   transport |-> ResolveTransport(cfg.transport),
   serverUrl |-> ResolveServerUrl(cfg.serverUrl),
   debug |-> ResolveDebug(cfg.debug)]

\* The argument of a constructor that has returned: it is held no longer.
NoArgument == [held |-> FALSE]

\* { ...a, ...b }: the entries of b over those of a.
Spread(a, b) ==
  [k \in DOMAIN a \cup DOMAIN b |-> IF k \in DOMAIN b THEN b[k] ELSE a[k]]

\* cleanEnv keeping every entry.
cleanEnv_keepsUndefined(env) == env

\* cleanEnv: the entries whose value is not undefined.
cleanEnv(env) ==
  [k \in {j \in DOMAIN env : env[j] # UndefinedValue} |-> env[k]]

\* const processEnv = cleanEnv({ ...process.env, ...this.config.env })
processEnv == cleanEnv(Spread(ambientEnv, config.env))

\* process.env where the environments are not drawn.
DefaultAmbientEnv == [k \in {"PATH"} |-> "a"]

\* ------------------------------------------------------------------ errors
AlreadyConnectedError == [message |-> "Client is already connected"]

ConfigurationError(t) ==
  [message |-> "Transport type not yet implemented", transport |-> t]

LaunchError == [message |-> "Failed to create process stdio streams"]

NotConnectedError == [message |-> "Client is not connected. Call connect() first."]

\* What client.connect() rejects with when the transport cannot start or the
\* initialize exchange fails.
HandshakeError == [message |-> "handshake failed"]

\* What a pending request rejects with when the transport fails or is closed.
TransportError == [message |-> "Connection closed"]

\* Errors a server may reply with (JSON-RPC code, message, data).
ProtocolErrors ==
  { [code |-> -32602, message |-> "Division by zero", data |-> "undefined"],
    [code |-> -32601, message |-> "Method not found", data |-> "detail"] }

Resolved(v) == [kind |-> "resolved", value |-> v]
Rejected(e) == [kind |-> "rejected", error |-> e]
NoResult == [kind |-> "none"]

\* ------------------------------------------------------------- operations
ListOps == {"listTools", "listResources", "listPrompts"}
RequestOps == ListOps \cup {"callTool", "readResource", "getPrompt"}
RemoteOps == RequestOps \cup {"getServerInfo"}

\* A value an operation resolves with.
Undefined == [t |-> "undefined"]
List(items) == [t |-> "list", items |-> items]
Item(i) == [t |-> "item", item |-> i]
Object(o) == [t |-> "object", object |-> o]

\* What a server may answer a list request or a read request with: the list
\* field (tools, resources, prompts, contents) absent, empty, or holding entries.
ListResponses ==
  { [has |-> FALSE, items |-> <<>>],
    [has |-> TRUE, items |-> <<>>],
    [has |-> TRUE, items |-> <<"b">>],
    [has |-> TRUE, items |-> <<"a", "b">>] }

\* What a server may answer callTool or getPrompt with.
ObjectResponses == {"result", "errorResult"}

\* The successful responses of the protocol client to a request of operation o.
Responses(o) ==
  IF o \in ListOps \cup {"readResource"} THEN ListResponses ELSE ObjectResponses

\* A list operation returning the field as it is: return response.tools
listResult_noDefault(response) ==
  IF response.has THEN List(response.items) ELSE Undefined

\* return (response.tools || []), (response.resources || []), (response.prompts || [])
listResult(response) ==
  IF response.has THEN List(response.items) ELSE List(<<>>)

\* readResource returning the entry reported last.
readResourceResult_last(response) ==
  IF response.has /\ Len(response.items) > 0
    THEN Item(response.items[Len(response.items)])
    ELSE Undefined

\* return response.contents?.[0]
readResourceResult(response) ==
  IF response.has /\ Len(response.items) > 0
    THEN Item(Head(response.items))
    ELSE Undefined

\* return response
passThroughResult(response) == Object(response)

\* What operation o returns for the client's response.
Deliver(o, response) ==
  IF o \in ListOps THEN listResult(response)
  ELSE IF o = "readResource" THEN readResourceResult(response)
  ELSE passThroughResult(response)

\* getServerInfo's fixed snapshot.
ServerInfoSnapshot ==
  [t |-> "info", protocolVersion |-> "2024-11-05", capabilities |-> "{}",
   serverInfo |-> [name |-> "unknown", version |-> "unknown"]]

\* What a handshake may negotiate: the protocol version, the server's
\* capabilities and the server's identity.
Handshakes ==
  [protocolVersion : {"2024-11-05", "2025-03-26"},
   capabilities : {"{}", "{tools}"},
   serverInfo : {[name |-> "unknown", version |-> "unknown"],
                 [name |-> "calculator", version |-> "1.0.0"]}]

\* What is negotiated where the handshakes are not drawn.
DefaultHandshake ==
  [protocolVersion |-> "2024-11-05", capabilities |-> "{tools}",
   serverInfo |-> [name |-> "calculator", version |-> "1.0.0"]]

\* Nothing is negotiated yet.
NoHandshake ==
  [protocolVersion |-> "none", capabilities |-> "none",
   serverInfo |-> [name |-> "none", version |-> "none"]]

\* ------------------------------------------------------------ environment
\* A process is live when it was started and no termination signal was sent to it.
Live(p) == procs[p].state = "running"

LiveProcs == {p \in 1..Len(procs) : Live(p)}

\* The record of a step: the caller, the operation, whether the step invoked
\* the operation or settled it, the operation's outcome (none while it is
\* pending), and what the step did: called this.client.close(), sent a process
\* the termination signal, spawned a process, handed the client a request.
\* proc is the process the operation's connect() attempt spawned.
\* served is what the server answered a settled request with, requests the
\* number of requests the operation handed the client, closeThrew whether the
\* close that disconnect() awaited threw, logged whether the step wrote to the
\* console.
Step(who, o, phase, r) ==
  [who |-> who, op |-> o, phase |-> phase, res |-> r, closed |-> FALSE,
   closeThrew |-> FALSE, killed |-> 0, spawned |-> 0, sent |-> FALSE,
   proc |-> 0, served |-> NoResult, requests |-> 0, logged |-> FALSE]

\* What a suspended operation holds: the process and the transport of a
\* connect() attempt, or the transport a request went out on and the number of
\* requests handed to the client.
NoAttempt == [proc |-> 0, tr |-> 0, reqs |-> 0]

\* A kill() that sends nothing.
Kill_noSignal(ps, p) == ps

\* process.kill(): the termination signal is sent; a process that never started
\* or was already signalled stays as it is.
Kill(ps, p) ==
  IF p # 0 /\ ps[p].state = "running" THEN [ps EXCEPT ![p].state = "killed"] ELSE ps

\* The transport t is closed: it is marked closed and its own process, if it
\* started one, is sent the termination signal.
CloseTransportProcs(t) ==
  IF t # 0 /\ transports[t].state = "started"
    THEN Kill(procs, transports[t].proc) ELSE procs

CloseTransport(t) ==
  IF t # 0 /\ transports[t].state # "closed"
    THEN [transports EXCEPT ![t].state = "closed"] ELSE transports

\* The protocol client is live: bound to a started transport whose handshake
\* completed, and not closed.
ClientLive ==
  /\ clientTransport # 0
  /\ transports[clientTransport].state = "started"
  /\ transports[clientTransport].ready

\* No operation of the Session is suspended at an await.
Quiescent == \A c \in Callers : pc[c] = "idle"

\* --------------------------------------------------------------------- Init
\* The fields of a Session the constructor has returned and the processes,
\* transports and callers around it.
Constructed ==
  /\ argument = NoArgument
  /\ initialized = FALSE
  /\ process = 0
  /\ transport = 0
  /\ procs = <<>>
  /\ transports = <<>>
  /\ clientTransport = 0
  /\ pc = [c \in Callers |-> "idle"]
  /\ op = [c \in Callers |-> "none"]
  /\ attempt = [c \in Callers |-> NoAttempt]
  /\ ev = Step("none", "constructor", "settle", NoResult)

\* No mock server is in use.
NoMock ==
  /\ tools = <<>>
  /\ resources = <<>>
  /\ registered = <<>>
  /\ registeredResources = <<>>
  /\ mockCall = [name |-> "none"]
  /\ got = [op |-> "none"]

\* No matcher is in use.
NoMatcher ==
  /\ received = Undefined
  /\ expected = Undefined
  /\ verdict = [matcher |-> "none"]

\* The configuration gives the transport; the environments are the defaults.
Init ==
  /\ \E t \in TransportInputs : config = Constructor(ConfigOf(t))
  /\ ambientEnv = DefaultAmbientEnv
  /\ Constructed
  /\ NoMock
  /\ NoMatcher

\* ------------------------------------------------------------ constructor
\* this.config before the constructor assigned it.
Unassigned == [assigned |-> FALSE]

\* new MCPTestClient(argument) is about to run: the fields hold their
\* initializers (lines 37-40), nothing was spawned and nobody calls yet.
ConstructInit ==
  /\ argument \in ConfigInputs
  /\ config = Unassigned
  /\ ambientEnv = DefaultAmbientEnv
  /\ initialized = FALSE
  /\ process = 0
  /\ transport = 0
  /\ procs = <<>>
  /\ transports = <<>>
  /\ clientTransport = 0
  /\ pc = [c \in Callers |-> "idle"]
  /\ op = [c \in Callers |-> "none"]
  /\ attempt = [c \in Callers |-> NoAttempt]
  /\ ev = Step("none", "none", "settle", NoResult)
  /\ NoMock
  /\ NoMatcher

\* The constructor runs: it resolves the configuration and makes the protocol
\* client; it spawns nothing and connects nothing.
New ==
  /\ config = Unassigned
  /\ config' = Constructor(argument)
  /\ ev' = Step("none", "constructor", "settle", NoResult)
  /\ UNCHANGED <<argument, ambientEnv, initialized, process, transport, procs,
                 transports, clientTransport, pc, op, attempt, mockVars,
                 matcherVars>>

ConstructNext == New

ConstructSpec == ConstructInit /\ [][ConstructNext]_vars

\* ---------------------------------------------------------------- connect
\* connect() without its check of this.initialized.
ConnectRefusal_noConnectedCheck ==
  IF config.transport # "stdio"
    THEN Rejected(ConfigurationError(config.transport))
    ELSE NoResult

\* connect() without its check of this.config.transport.
ConnectRefusal_noTransportCheck ==
  IF initialized THEN Rejected(AlreadyConnectedError) ELSE NoResult

\* connect() taking a process handle that is set for a connection.
ConnectRefusal_whileProcessHeld ==
  IF initialized \/ process # 0 THEN Rejected(AlreadyConnectedError)
  ELSE IF config.transport # "stdio"
    THEN Rejected(ConfigurationError(config.transport))
    ELSE NoResult

\* The checks connect() starts with: what it throws before it spawns anything
\* (none when it goes on).
ConnectRefusal ==
  IF initialized THEN Rejected(AlreadyConnectedError)
  ELSE IF config.transport # "stdio"
    THEN Rejected(ConfigurationError(config.transport))
    ELSE NoResult

\* connect() up to its first await (or to the throw that ends it).
\* The launcher's outcome is the environment's: the process may or may not have
\* started, and its stdio streams may or may not be there.  The call of
\* this.client.connect(this.transport) binds the client to the new transport
\* and starts it; a stdio transport constructed from a command, arguments and
\* an environment launches a process of its own from them, which may fail too.
\* o is the operation that runs it: connect() called by c, or
\* createMCPTestClient() calling it on the Session it constructed; awaiting is
\* where that operation is suspended while the handshake is pending.
ConnectBody(c, maxProcs, o, awaiting) ==
  /\ IF ConnectRefusal # NoResult THEN
       /\ ev' = Step(c, o, "invoke", ConnectRefusal)
       /\ UNCHANGED <<session, procs, transports, clientTransport, pc, op, attempt>>
     ELSE
       /\ Len(procs) + 2 <= maxProcs
       /\ \E started \in BOOLEAN, streams \in BOOLEAN, trStarted \in BOOLEAN :
            LET p == Len(procs) + 1
                t == Len(transports) + 1
                spawned == [owner |-> "session",
                            state |-> IF started THEN "running" ELSE "failed",
                            env |-> processEnv,
                            listeners |-> streams]
                ofTransport == [owner |-> "transport", state |-> "running",
                                env |-> processEnv, listeners |-> FALSE]
            IN /\ process' = p
               /\ IF ~streams THEN
                    /\ procs' = Append(procs, spawned)
                    /\ ev' = [Step(c, o, "invoke", Rejected(LaunchError))
                                EXCEPT !.spawned = p, !.proc = p]
                    /\ UNCHANGED <<transport, transports, clientTransport, pc,
                                   op, attempt>>
                  ELSE
                    /\ procs' = IF trStarted
                         THEN procs \o <<spawned, ofTransport>>
                         ELSE Append(procs, spawned)
                    /\ transports' = Append(transports,
                         [state |-> IF trStarted THEN "started" ELSE "failed",
                          proc |-> IF trStarted THEN p + 1 ELSE 0,
                          ready |-> FALSE,
                          negotiated |-> NoHandshake,
                          env |-> processEnv])
                    /\ transport' = t
                    /\ clientTransport' = t
                    /\ attempt' = [attempt EXCEPT ![c] = [proc |-> p, tr |-> t, reqs |-> 0]]
                    /\ pc' = [pc EXCEPT ![c] = awaiting]
                    /\ op' = [op EXCEPT ![c] = o]
                    /\ ev' = [Step(c, o, "invoke", NoResult)
                                EXCEPT !.spawned = p, !.proc = p]
               /\ UNCHANGED <<config, initialized>>
  /\ UNCHANGED outside

\* connect() invoked by c, which holds the Session and has no operation in
\* flight.
ConnectWithin(c, maxProcs) ==
  /\ pc[c] = "idle"
  /\ ConnectBody(c, maxProcs, "connect", "connect_await")

ConnectCall(c) == ConnectWithin(c, MaxProcs)

ConnectCallFair(c) == ConnectWithin(c, MaxFairProcs)

\* await this.client.connect(this.transport) resolves, the handshake having
\* negotiated h, which the protocol client keeps; connect() runs to its end.
ConnectResumeWith(c, h) ==
  /\ pc[c] = "connect_await"
  /\ transports[attempt[c].tr].state = "started"
  /\ Live(transports[attempt[c].tr].proc)
  /\ initialized' = TRUE
  /\ pc' = [pc EXCEPT ![c] = "idle"]
  /\ op' = [op EXCEPT ![c] = "none"]
  /\ attempt' = [attempt EXCEPT ![c] = NoAttempt]
  /\ transports' = [transports EXCEPT ![attempt[c].tr].ready = TRUE,
                                      ![attempt[c].tr].negotiated = h]
  /\ ev' = [Step(c, "connect", "settle", Resolved(Undefined))
              EXCEPT !.proc = attempt[c].proc, !.logged = config.debug]
  /\ UNCHANGED <<config, process, transport, procs, clientTransport>>
  /\ UNCHANGED outside

ConnectResume(c) == ConnectResumeWith(c, DefaultHandshake)

\* await this.client.connect(this.transport) rejects; connect() rejects with it.
\* Whether the client closed the transport it was given is the client's business.
ConnectReject(c) ==
  /\ pc[c] = "connect_await"
  /\ \E closes \in BOOLEAN :
       LET t == attempt[c].tr IN
       /\ procs' = IF closes THEN CloseTransportProcs(t) ELSE procs
       /\ transports' = IF closes THEN CloseTransport(t) ELSE transports
       /\ clientTransport' = IF closes /\ clientTransport = t THEN 0 ELSE clientTransport
  /\ pc' = [pc EXCEPT ![c] = "idle"]
  /\ op' = [op EXCEPT ![c] = "none"]
  /\ attempt' = [attempt EXCEPT ![c] = NoAttempt]
  /\ ev' = [Step(c, "connect", "settle", Rejected(HandshakeError))
              EXCEPT !.proc = attempt[c].proc]
  /\ UNCHANGED session
  /\ UNCHANGED outside

\* ------------------------------------------------------------- disconnect
\* disconnect() without its early return.
DisconnectIsNoOp_never == FALSE

\* disconnect() returning early only when there is nothing to take down.
DisconnectIsNoOp_unlessProcessHeld == ~initialized /\ process = 0

\* if (!this.initialized) return
DisconnectIsNoOp == ~initialized

\* disconnect() up to its await of this.client.close(), or its early return.
DisconnectCall(c) ==
  /\ pc[c] = "idle"
  /\ IF DisconnectIsNoOp THEN
       /\ ev' = Step(c, "disconnect", "invoke", Resolved(Undefined))
       /\ UNCHANGED <<pc, op>>
     ELSE
       /\ pc' = [pc EXCEPT ![c] = "disconnect_await"]
       /\ op' = [op EXCEPT ![c] = "disconnect"]
       /\ ev' = [Step(c, "disconnect", "invoke", NoResult) EXCEPT !.closed = TRUE]
  /\ UNCHANGED <<session, procs, transports, clientTransport, attempt>>
  /\ UNCHANGED outside

\* disconnect() without the try/catch around this.client.close().
DisconnectOutcome_rethrows(closeThrows) ==
  IF closeThrows THEN Rejected(TransportError) ELSE Resolved(Undefined)

\* What disconnect() settles with after this.client.close() resolved or threw.
DisconnectOutcome(closeThrows) == Resolved(Undefined)

\* disconnect() waiting, after the close, for the process to have exited
\* before it goes on.
DisconnectMayResume_afterExit(c) ==
  /\ pc[c] = "disconnect_await"
  /\ process # 0 => ~Live(process)

\* c's disconnect() is suspended at await this.client.close() and goes on as
\* soon as the close settles: it waits for nothing else.
DisconnectMayResume(c) == pc[c] = "disconnect_await"

\* disconnect() keeping the handle of the process it killed.
ProcessAfterKill_kept == process

\* this.process = null, after the kill
ProcessAfterKill == 0

\* this.client.close() settles (resolved or thrown, the error swallowed) and
\* disconnect() runs to its end: kill the process, clear the handles.
\* A close that resolves has closed the client's transport; one that throws may
\* or may not have.
DisconnectResume(c) ==
  /\ DisconnectMayResume(c)
  /\ \E closeThrows \in BOOLEAN, trClosed \in BOOLEAN :
       /\ ~closeThrows => trClosed
       /\ LET afterClose == IF trClosed THEN CloseTransportProcs(clientTransport)
                                        ELSE procs
          IN procs' = Kill(afterClose, process)
       /\ transports' = IF trClosed THEN CloseTransport(clientTransport) ELSE transports
       /\ clientTransport' = IF trClosed THEN 0 ELSE clientTransport
       /\ ev' = [Step(c, "disconnect", "settle", DisconnectOutcome(closeThrows))
                   EXCEPT !.killed = process, !.closeThrew = closeThrows,
                          !.logged = config.debug]
  /\ process' = IF process # 0 THEN ProcessAfterKill ELSE process
  /\ transport' = 0
  /\ initialized' = FALSE
  /\ pc' = [pc EXCEPT ![c] = "idle"]
  /\ op' = [op EXCEPT ![c] = "none"]
  /\ UNCHANGED <<config, attempt>>
  /\ UNCHANGED outside

\* ------------------------------------------------------------ remote calls
\* A remote call without the guard.
ensureConnected_unchecked == TRUE

\* this.ensureConnected()
ensureConnected == initialized

\* getServerInfo() returning what the handshake negotiated.
getServerInfoResult_negotiated ==
  IF clientTransport = 0 THEN ServerInfoSnapshot
  ELSE [t |-> "info",
        protocolVersion |-> transports[clientTransport].negotiated.protocolVersion,
        capabilities |-> transports[clientTransport].negotiated.capabilities,
        serverInfo |-> transports[clientTransport].negotiated.serverInfo]

\* What getServerInfo() returns: the object literal of lines 220-227.
getServerInfoResult == ServerInfoSnapshot

\* One of listTools, callTool, listResources, readResource, listPrompts,
\* getPrompt, getServerInfo, up to its await of the client's request.
RemoteCall(c, o) ==
  /\ pc[c] = "idle"
  /\ IF ~ensureConnected THEN
       /\ ev' = Step(c, o, "invoke", Rejected(NotConnectedError))
       /\ UNCHANGED <<pc, op, attempt>>
     ELSE IF o = "getServerInfo" THEN
       /\ ev' = Step(c, o, "invoke", Resolved(getServerInfoResult))
       /\ UNCHANGED <<pc, op, attempt>>
     ELSE
       /\ attempt' = [attempt EXCEPT ![c] =
                        [proc |-> 0, tr |-> clientTransport, reqs |-> 1]]
       /\ pc' = [pc EXCEPT ![c] = "call_await"]
       /\ op' = [op EXCEPT ![c] = o]
       /\ ev' = [Step(c, o, "invoke", NoResult) EXCEPT !.sent = TRUE]
  /\ UNCHANGED <<session, procs, transports, clientTransport>>
  /\ UNCHANGED outside

\* A remote call that takes its failure for the end of the connection.
ConnectedAfterCall_dropsOnFailure(kind) ==
  IF kind = "rejected" THEN FALSE ELSE initialized

\* this.initialized once a remote call settled (kind: resolved or rejected):
\* none of the operations assigns it.
ConnectedAfterCall(kind) == initialized

\* The server can answer the request c's operation is awaiting.
ServerCanReply(c) ==
  /\ pc[c] = "call_await"
  /\ attempt[c].tr # 0
  /\ transports[attempt[c].tr].state = "started"
  /\ Live(transports[attempt[c].tr].proc)

\* The client's request resolves with the server's response; the operation
\* returns what it makes of it.
CallResolve(c) ==
  /\ ServerCanReply(c)
  /\ \E response \in Responses(op[c]) :
       ev' = [Step(c, op[c], "settle", Resolved(Deliver(op[c], response)))
               EXCEPT !.served = Resolved(response), !.requests = attempt[c].reqs]
  /\ pc' = [pc EXCEPT ![c] = "idle"]
  /\ op' = [op EXCEPT ![c] = "none"]
  /\ attempt' = [attempt EXCEPT ![c] = NoAttempt]
  /\ initialized' = ConnectedAfterCall("resolved")
  /\ UNCHANGED <<config, process, transport, procs, transports, clientTransport>>
  /\ UNCHANGED outside

\* The operation catching the client's error and throwing a plain Error with
\* its message.
Propagate_translated(e) == Rejected([message |-> e.message])

\* What the operation settles with when the awaited request rejects with e.
Propagate(e) == Rejected(e)

\* The server replies with a protocol error: the client's request rejects with
\* it and so does the operation.
CallProtocolError(c) ==
  /\ ServerCanReply(c)
  /\ \E e \in ProtocolErrors :
       ev' = [Step(c, op[c], "settle", Propagate(e))
               EXCEPT !.served = Rejected(e), !.requests = attempt[c].reqs]
  /\ pc' = [pc EXCEPT ![c] = "idle"]
  /\ op' = [op EXCEPT ![c] = "none"]
  /\ attempt' = [attempt EXCEPT ![c] = NoAttempt]
  /\ initialized' = ConnectedAfterCall("rejected")
  /\ UNCHANGED <<config, process, transport, procs, transports, clientTransport>>
  /\ UNCHANGED outside

\* The transport reports failure (peer closed, client closed): the client's
\* request rejects and so does the operation.
CallTransportFailure(c) ==
  /\ pc[c] = "call_await"
  /\ ev' = [Step(c, op[c], "settle", Propagate(TransportError))
              EXCEPT !.requests = attempt[c].reqs]
  /\ pc' = [pc EXCEPT ![c] = "idle"]
  /\ op' = [op EXCEPT ![c] = "none"]
  /\ attempt' = [attempt EXCEPT ![c] = NoAttempt]
  /\ initialized' = ConnectedAfterCall("rejected")
  /\ UNCHANGED <<config, process, transport, procs, transports, clientTransport>>
  /\ UNCHANGED outside

\* --------------------------------------------------------------------- Next
Next ==
  \E c \in Callers :
    \/ ConnectCall(c)
    \/ ConnectResume(c)
    \/ ConnectReject(c)
    \/ DisconnectCall(c)
    \/ DisconnectResume(c)
    \/ \E o \in RemoteOps : RemoteCall(c, o)
    \/ CallResolve(c)
    \/ CallProtocolError(c)
    \/ CallTransportFailure(c)

Spec == Init /\ [][Next]_vars

\* Every awaited promise settles: the client's connect, the client's close and
\* the client's requests settle one way or the other, and the continuation of
\* the operation that awaits them then runs.
Settle(c) ==
  \/ ConnectResume(c) \/ ConnectReject(c)
  \/ DisconnectResume(c)
  \/ CallResolve(c) \/ CallProtocolError(c) \/ CallTransportFailure(c)

Fairness == \A c \in Callers : WF_vars(Settle(c))

FairNext ==
  \E c \in Callers :
    \/ ConnectCallFair(c)
    \/ ConnectResume(c)
    \/ ConnectReject(c)
    \/ DisconnectCall(c)
    \/ DisconnectResume(c)
    \/ \E o \in RemoteOps : RemoteCall(c, o)
    \/ CallResolve(c)
    \/ CallProtocolError(c)
    \/ CallTransportFailure(c)

FairSpec == Init /\ [][FairNext]_vars /\ Fairness

\* ------------------------------------------------------------ awaited calls
ConnectCallSerial(c) == ConnectWithin(c, MaxSerialProcs)

\* The callers await each operation before they invoke the next: an operation
\* is invoked when none is in flight.
SerialNext ==
  \E c \in Callers :
    \/ Quiescent /\ ConnectCallSerial(c)
    \/ ConnectResume(c)
    \/ ConnectReject(c)
    \/ Quiescent /\ DisconnectCall(c)
    \/ DisconnectResume(c)
    \/ Quiescent /\ \E o \in RemoteOps : RemoteCall(c, o)
    \/ CallResolve(c)
    \/ CallProtocolError(c)
    \/ CallTransportFailure(c)

SerialSpec == Init /\ [][SerialNext]_vars

\* ------------------------------------------------------------- environments
\* The configuration gives the transport and the environment, and the ambient
\* environment is any.
EnvInit ==
  /\ \E t \in TransportInputs, e \in EnvInputs :
       config = Constructor([ConfigOf(t) EXCEPT !.env = e])
  /\ ambientEnv \in AmbientEnvs
  /\ Constructed
  /\ NoMock
  /\ NoMatcher

ConnectCallEnv(c) == ConnectWithin(c, MaxEnvProcs)

\* connect() on a Session of any environment, and disconnect().
EnvNext ==
  \E c \in Callers :
    \/ ConnectCallEnv(c)
    \/ ConnectResume(c)
    \/ ConnectReject(c)
    \/ DisconnectCall(c)
    \/ DisconnectResume(c)

EnvSpec == EnvInit /\ [][EnvNext]_vars

\* ------------------------------------------------------ createMCPTestClient
\* The Session as a value handed to a caller.
SessionRef == [t |-> "session"]

\* Before createMCPTestClient(config) is called: no caller holds a Session.
\* config is what the constructor will resolve the argument to.
FactoryInit ==
  /\ \E t \in TransportInputs : config = Constructor(ConfigOf(t))
  /\ ambientEnv = DefaultAmbientEnv
  /\ argument = NoArgument
  /\ initialized = FALSE
  /\ process = 0
  /\ transport = 0
  /\ procs = <<>>
  /\ transports = <<>>
  /\ clientTransport = 0
  /\ pc = [c \in Callers |-> "outside"]
  /\ op = [c \in Callers |-> "none"]
  /\ attempt = [c \in Callers |-> NoAttempt]
  /\ ev = Step("none", "constructor", "settle", NoResult)
  /\ NoMock
  /\ NoMatcher

\* createMCPTestClient(config) called by c, up to its await: the constructor,
\* then client.connect() up to its await or its throw, which the factory does
\* not catch.  One Session is made: the factory is called once.
FactoryCall(c) ==
  /\ \A d \in Callers : pc[d] = "outside"
  /\ ev.op = "constructor"
  /\ ConnectBody(c, MaxFactoryProcs, "createMCPTestClient", "create_await")

\* A factory that returns the Session whatever became of connect().
FactoryHandsOver_always(r) == TRUE

\* return client is reached when await client.connect() did not throw.
FactoryHandsOver(r) == r.kind = "resolved"

\* Who holds the Session once the factory settled with r: the program that
\* called it, all of its callers, or nobody.
FactoryHolders(c, r) ==
  IF FactoryHandsOver(r)
    THEN [d \in Callers |-> "idle"]
    ELSE [pc EXCEPT ![c] = "outside"]

\* await client.connect() resolves inside the factory: connect() ran to its
\* end and the factory returns the Session.
FactoryResume(c) ==
  /\ pc[c] = "create_await"
  /\ transports[attempt[c].tr].state = "started"
  /\ Live(transports[attempt[c].tr].proc)
  /\ initialized' = TRUE
  /\ pc' = FactoryHolders(c, Resolved(Undefined))
  /\ op' = [op EXCEPT ![c] = "none"]
  /\ attempt' = [attempt EXCEPT ![c] = NoAttempt]
  /\ transports' = [transports EXCEPT ![attempt[c].tr].ready = TRUE,
                                      ![attempt[c].tr].negotiated = DefaultHandshake]
  /\ ev' = [Step(c, "createMCPTestClient", "settle", Resolved(SessionRef))
              EXCEPT !.proc = attempt[c].proc, !.logged = config.debug]
  /\ UNCHANGED <<config, process, transport, procs, clientTransport>>
  /\ UNCHANGED outside

\* await client.connect() rejects inside the factory, which rejects with it.
FactoryReject(c) ==
  /\ pc[c] = "create_await"
  /\ \E closes \in BOOLEAN :
       LET t == attempt[c].tr IN
       /\ procs' = IF closes THEN CloseTransportProcs(t) ELSE procs
       /\ transports' = IF closes THEN CloseTransport(t) ELSE transports
       /\ clientTransport' = IF closes /\ clientTransport = t THEN 0 ELSE clientTransport
  /\ pc' = FactoryHolders(c, Rejected(HandshakeError))
  /\ op' = [op EXCEPT ![c] = "none"]
  /\ attempt' = [attempt EXCEPT ![c] = NoAttempt]
  /\ ev' = [Step(c, "createMCPTestClient", "settle", Rejected(HandshakeError))
              EXCEPT !.proc = attempt[c].proc]
  /\ UNCHANGED session
  /\ UNCHANGED outside

ConnectCallFactory(c) == ConnectWithin(c, MaxFactoryProcs)

\* The factory, and then whatever the callers do with the Session it returned.
FactoryNext ==
  \E c \in Callers :
    \/ FactoryCall(c)
    \/ FactoryResume(c)
    \/ FactoryReject(c)
    \/ ConnectCallFactory(c)
    \/ ConnectResume(c)
    \/ ConnectReject(c)
    \/ DisconnectCall(c)
    \/ DisconnectResume(c)
    \/ \E o \in RemoteOps : RemoteCall(c, o)
    \/ CallResolve(c)
    \/ CallProtocolError(c)
    \/ CallTransportFailure(c)

FactorySpec == FactoryInit /\ [][FactoryNext]_vars

\* ---------------------------------------------------------- process events
\* The configuration gives the transport and the debug flag.
EventInit ==
  /\ \E t \in TransportInputs, d \in DebugInputs :
       config = Constructor([ConfigOf(t) EXCEPT !.debug = d])
  /\ ambientEnv = DefaultAmbientEnv
  /\ Constructed
  /\ NoMock
  /\ NoMatcher

\* What the process emits that connect() listens to: 'error' on the process,
\* 'data' on its stderr.
ProcessEvents == {"error", "stderr"}

\* The processes connect() attached its listeners to: those it spawned and
\* found with their stdio streams.
Listened == {p \in 1..Len(procs) : procs[p].listeners}

\* A listener that takes an error event for the end of the connection.
OnProcessEvent_marksDisconnected(p, e) ==
  /\ p \in Listened
  /\ ev' = [Step("process", e, "event", NoResult)
              EXCEPT !.proc = p, !.logged = config.debug]
  /\ initialized' = IF e = "error" THEN FALSE ELSE initialized
  /\ UNCHANGED <<config, process, transport, procs, transports, clientTransport,
                 pc, op, attempt>>
  /\ UNCHANGED outside

\* The listeners of lines 92-102 run for an event of process p: they write to
\* the console when this.config.debug is set and do nothing else.  The event
\* may come at any time after the spawn: while connect() awaits the handshake,
\* while the Session is connected, after the process was killed.
OnProcessEvent(p, e) ==
  /\ p \in Listened
  /\ ev' = [Step("process", e, "event", NoResult)
              EXCEPT !.proc = p, !.logged = config.debug]
  /\ UNCHANGED <<session, procs, transports, clientTransport, pc, op, attempt>>
  /\ UNCHANGED outside

ConnectCallEvent(c) == ConnectWithin(c, MaxEventProcs)

EventNext ==
  \/ \E c \in Callers :
       \/ ConnectCallEvent(c)
       \/ ConnectResume(c)
       \/ ConnectReject(c)
       \/ DisconnectCall(c)
       \/ DisconnectResume(c)
       \/ \E o \in RemoteOps : RemoteCall(c, o)
       \/ CallResolve(c)
       \/ CallProtocolError(c)
       \/ CallTransportFailure(c)
  \/ \E p \in 1..Len(procs), e \in ProcessEvents : OnProcessEvent(p, e)

EventSpec == EventInit /\ [][EventNext]_vars

\* --------------------------------------------------------------- handshake
ConnectCallInfo(c) == ConnectWithin(c, MaxInfoProcs)

\* The handshake of c's connect() completes with any negotiated result.
HandshakeResume(c) == \E h \in Handshakes : ConnectResumeWith(c, h)

InfoNext ==
  \E c \in Callers :
    \/ ConnectCallInfo(c)
    \/ HandshakeResume(c)
    \/ ConnectReject(c)
    \/ DisconnectCall(c)
    \/ DisconnectResume(c)
    \/ \E o \in RemoteOps : RemoteCall(c, o)
    \/ CallResolve(c)
    \/ CallProtocolError(c)
    \/ CallTransportFailure(c)

InfoSpec == Init /\ [][InfoNext]_vars

\* ------------------------------------------------------------------ timeout
\* The configuration gives the timeout; the transport is the default.
TimeoutInit ==
  /\ \E n \in TimeoutInputs :
       config = Constructor([ConfigOf("undefined") EXCEPT !.timeout = n])
  /\ ambientEnv = DefaultAmbientEnv
  /\ Constructed
  /\ NoMock
  /\ NoMatcher

\* What an operation would reject with had it a deadline.
TimeoutError == [message |-> "Request timed out"]

\* An operation that gives up when the configured timeout has elapsed.
OnTimeout_rejects(c) ==
  /\ pc[c] \in {"connect_await", "call_await"}
  /\ ev' = Step(c, op[c], "settle", Rejected(TimeoutError))
  /\ pc' = [pc EXCEPT ![c] = "idle"]
  /\ op' = [op EXCEPT ![c] = "none"]
  /\ attempt' = [attempt EXCEPT ![c] = NoAttempt]
  /\ UNCHANGED <<session, procs, transports, clientTransport>>
  /\ UNCHANGED outside

\* this.config.timeout milliseconds have passed since caller c invoked the
\* operation it is suspended in.  The constructor stores the timeout (line 47)
\* and nothing reads it: connect() and the remote calls arm no timer and pass
\* the client no deadline, so no code of the Session runs and the operation
\* stays suspended.
OnTimeout(c) ==
  /\ pc[c] \in {"connect_await", "call_await"}
  /\ ev' = Step(c, op[c], "elapsed", NoResult)
  /\ UNCHANGED <<session, procs, transports, clientTransport, pc, op, attempt>>
  /\ UNCHANGED outside

ConnectCallTimeout(c) == ConnectWithin(c, MaxTimeoutProcs)

TimeoutNext ==
  \E c \in Callers :
    \/ ConnectCallTimeout(c)
    \/ ConnectResume(c)
    \/ ConnectReject(c)
    \/ DisconnectCall(c)
    \/ DisconnectResume(c)
    \/ \E o \in RemoteOps : RemoteCall(c, o)
    \/ CallResolve(c)
    \/ CallProtocolError(c)
    \/ CallTransportFailure(c)
    \/ OnTimeout(c)

TimeoutSpec == TimeoutInit /\ [][TimeoutNext]_vars

\* ------------------------------------------------------------------ values
\* The values of the language the mock server and the matchers are handed:
\* undefined (above), null, numbers, booleans, strings as sequences of
\* characters, arrays, and objects as functions of their own properties.
Null == [t |-> "null"]
Num(n) == [t |-> "number", n |-> n]
Bool(b) == [t |-> "boolean", b |-> b]
Str(x) == [t |-> "string", s |-> x]
Arr(items) == [t |-> "array", items |-> items]
Obj(f) == [t |-> "object", f |-> f]

\* A regular expression of a literal source: /source/ with the flags i and g,
\* and its lastIndex.
RegExp(source, i, g) ==
  [t |-> "regexp", source |-> source, ignoreCase |-> i, global |-> g,
   lastIndex |-> 0]

\* The characters of the words the code names, as sequences.
Word(w) ==
  CASE w = "object" -> <<"o", "b", "j", "e", "c", "t">>
    [] w = "string" -> <<"s", "t", "r", "i", "n", "g">>
    [] w = "text" -> <<"t", "e", "x", "t">>
    [] w = "image" -> <<"i", "m", "a", "g", "e">>
    [] w = "resource" -> <<"r", "e", "s", "o", "u", "r", "c", "e">>
    [] w = "video" -> <<"v", "i", "d", "e", "o">>
    [] w = "adds" -> <<"a", "d", "d", "s">>
    [] w = "echoes" -> <<"e", "c", "h", "o", "e", "s">>

\* A property that an object literal leaves out.
Absent == [t |-> "absent"]

\* The object with the properties of r that are not left out.
Rec(r) == [k \in {j \in DOMAIN r : r[j] # Absent} |-> r[k]]

\* typeof v
TypeOf(v) ==
  IF v.t \in {"null", "array", "object", "regexp"} THEN "object" ELSE v.t

\* !!v
Truthy(v) ==
  CASE v.t \in {"undefined", "null"} -> FALSE
    [] v.t = "number" -> v.n # 0
    [] v.t = "boolean" -> v.b
    [] v.t = "string" -> v.s # <<>>
    [] OTHER -> TRUE

\* v.k for a v that is neither null nor undefined: an own property of an
\* object, the length of an array or a string, undefined otherwise.
Get(v, k) ==
  IF v.t = "object" /\ k \in DOMAIN v.f THEN v.f[k]
  ELSE IF v.t = "array" /\ k = "length" THEN Num(Len(v.items))
  ELSE IF v.t = "string" /\ k = "length" THEN Num(Len(v.s))
  ELSE Undefined

\* a === b, of two values that are not one and the same object or array.
StrictEq(a, b) ==
  a.t = b.t /\ a.t \notin {"object", "array", "regexp"} /\ a = b

\* White space that String.prototype.trim removes.
WhiteSpace == {" ", "\t"}

\* s.trim(): s without the white space it starts and ends with.
RECURSIVE Trim(_)
Trim(s) ==
  IF s = <<>> THEN s
  ELSE IF Head(s) \in WhiteSpace THEN Trim(Tail(s))
  ELSE IF s[Len(s)] \in WhiteSpace THEN Trim(SubSeq(s, 1, Len(s) - 1))
  ELSE s

\* No Session is in use: one is constructed and left alone.
NoSession ==
  /\ config = Constructor(ConfigOf("undefined"))
  /\ ambientEnv = DefaultAmbientEnv
  /\ Constructed

\* ---------------------------------------------------------------- matchers
\* What a matcher returns: pass or not.  A matcher that throws does not return.
Pass(b) == [kind |-> "returned", pass |-> b]
Threw == [kind |-> "threw"]

\* toBeValidMCPTool without the trim: a name of white space passes.
NameIsEmpty_untrimmed(name) == name.s = <<>>

\* tool.name.trim() === ''
NameIsEmpty(name) == Trim(name.s) = <<>>

\* toBeValidMCPTool(received)
toBeValidMCPTool(tool) ==
  IF ~Truthy(tool) \/ TypeOf(tool) # "object" THEN Pass(FALSE)
  ELSE IF TypeOf(Get(tool, "name")) # "string" \/ NameIsEmpty(Get(tool, "name"))
    THEN Pass(FALSE)
  ELSE IF ~Truthy(Get(tool, "inputSchema"))
            \/ TypeOf(Get(tool, "inputSchema")) # "object"
    THEN Pass(FALSE)
  ELSE IF ~StrictEq(Get(Get(tool, "inputSchema"), "type"), Str(Word("object")))
    THEN Pass(FALSE)
  ELSE Pass(TRUE)

\* The names a tool is given: empty, white space, padded, plain.
NameStrings ==
  {Str(s) : s \in {<<>>, <<" ">>, <<"\t", " ">>, <<"a">>, <<" ", "a">>,
                   <<"a", "\t">>, <<"a", " ", "b">>}}

\* What may stand for a tool's inputSchema.
SchemaValues ==
  { Absent, Null, Str(Word("object")), Arr(<<>>), Obj(<<>>),
    Obj([type |-> Str(Word("object"))]),
    Obj([type |-> Str(Word("string"))]),
    Obj([type |-> Str(Word("object")), properties |-> Obj(<<>>),
         required |-> Arr(<<Str(<<"a">>)>>)]) }

\* The values toBeValidMCPTool is applied to: values that are no objects, and
\* objects with any name, inputSchema and description.
ToolValues ==
  {Undefined, Null, Num(0), Str(<<"a">>), Bool(TRUE), Arr(<<>>)} \cup
  { Obj(Rec([name |-> n, inputSchema |-> sc, description |-> d])) :
      n \in NameStrings \cup {Absent, Num(1)},
      sc \in SchemaValues,
      d \in {Absent, Str(<<"a">>), Num(1)} }

\* ['text', 'image', 'resource'].includes(type)
IsContentType(type) ==
  \E w \in {"text", "image", "resource"} : StrictEq(type, Str(Word(w)))

\* The loop over result.content: "ok" when it runs to its end, "invalid" at
\* the first item without a type of the three, "threw" at an item that is null
\* or undefined, whose type cannot be read.
RECURSIVE CheckItems(_)
CheckItems(items) ==
  IF items = <<>> THEN "ok"
  ELSE IF Head(items).t \in {"null", "undefined"} THEN "threw"
  ELSE IF ~Truthy(Get(Head(items), "type")) \/ ~IsContentType(Get(Head(items), "type"))
    THEN "invalid"
  ELSE CheckItems(Tail(items))

\* The comparison with expected.content taking place only between arrays of
\* one item or more.
ContentCompared_nonEmpty(exp, result) ==
  /\ Truthy(Get(exp, "content"))
  /\ Get(Get(exp, "content"), "length") # Num(0)

\* expected.content && result.content
ContentCompared(exp, result) ==
  Truthy(Get(exp, "content")) /\ Truthy(Get(result, "content"))

\* toMatchMCPToolResponse(received, expected)
toMatchMCPToolResponse(result, exp) ==
  IF ~Truthy(result) \/ TypeOf(result) # "object" THEN Pass(FALSE)
  ELSE IF Get(result, "content").t # "array" THEN Pass(FALSE)
  ELSE IF Len(Get(result, "content").items) = 0 THEN Pass(FALSE)
  ELSE IF CheckItems(Get(result, "content").items) = "threw" THEN Threw
  ELSE IF CheckItems(Get(result, "content").items) = "invalid" THEN Pass(FALSE)
  ELSE IF ~Truthy(exp) THEN Pass(TRUE)
  ELSE IF /\ ~StrictEq(Get(exp, "isError"), Undefined)
          /\ ~StrictEq(Get(result, "isError"), Get(exp, "isError"))
    THEN Pass(FALSE)
  ELSE IF /\ ContentCompared(exp, result)
          /\ ~StrictEq(Get(Get(exp, "content"), "length"),
                       Get(Get(result, "content"), "length"))
    THEN Pass(FALSE)
  ELSE Pass(TRUE)

\* Content items: of each of the three types, of another type, without a
\* type, with an empty type; and values that are no objects.
ContentItems ==
  { Obj([type |-> Str(Word("text")), text |-> Str(<<"a">>)]),
    Obj([type |-> Str(Word("image"))]),
    Obj([type |-> Str(Word("resource"))]),
    Obj([type |-> Str(Word("video"))]),
    Obj([text |-> Str(<<"a">>)]),
    Obj([type |-> Str(<<>>)]),
    Str(Word("text")),
    Null }

\* What may stand for the content of a tool response.
ContentValues ==
  {Absent, Null, Str(Word("text")), Obj(<<>>), Arr(<<>>)} \cup
  {Arr(<<i>>) : i \in ContentItems} \cup
  {Arr(<<Obj([type |-> Str(Word("text"))]), i>>) : i \in ContentItems}

\* The values toMatchMCPToolResponse is applied to.
ResponseValues ==
  {Undefined, Null, Num(1), Arr(<<>>)} \cup
  { Obj(Rec([content |-> c, isError |-> e])) :
      c \in ContentValues, e \in {Absent, Bool(TRUE), Bool(FALSE)} }

\* Its argument: none, or a Partial<MCPToolResult>.
ResponseExpecteds ==
  {Undefined} \cup
  { Obj(Rec([content |-> c, isError |-> e])) :
      c \in {Absent, Arr(<<>>), Arr(<<Obj([type |-> Str(Word("text"))])>>),
             Arr(<<Obj([type |-> Str(Word("text"))]),
                   Obj([type |-> Str(Word("image"))])>>)},
      e \in {Absent, Undefined, Bool(TRUE), Bool(FALSE)} }

\* The letter c in lower case.
Lower(c) == IF c = "A" THEN "a" ELSE IF c = "B" THEN "b" ELSE c

\* The characters a and b are the same to the regular expression re.
SameChar(re, a, b) == IF re.ignoreCase THEN Lower(a) = Lower(b) ELSE a = b

\* The source of re matches str at the index i, counted from 0.
MatchAt(re, str, i) ==
  /\ i + Len(re.source) <= Len(str)
  /\ \A j \in 1..Len(re.source) : SameChar(re, re.source[j], str[i + j])

\* The indices, from the index from on, at which re matches str.
MatchesFrom(re, str, from) == {i \in from..Len(str) : MatchAt(re, str, i)}

\* The least number of a set of numbers that is not empty.
Min(S) == CHOOSE i \in S : \A j \in S : i <= j

\* re.test(str): its result and the lastIndex it leaves in re. Without the
\* flag g the search begins at the index 0 and lastIndex is left alone; with
\* it the search begins at lastIndex, which becomes the end of the match
\* found, or 0 when there is none.
RegExpTest(re, str) ==
  IF ~re.global THEN [result |-> MatchesFrom(re, str, 0) # {}, lastIndex |-> re.lastIndex]
  ELSE IF MatchesFrom(re, str, re.lastIndex) = {} THEN [result |-> FALSE, lastIndex |-> 0]
  ELSE [result |-> TRUE,
        lastIndex |-> Min(MatchesFrom(re, str, re.lastIndex)) + Len(re.source)]

\* error.message || '', for a message that is a string or falsy.
MessageOrEmpty(error) ==
  IF Truthy(Get(error, "message")) THEN Get(error, "message").s ELSE <<>>

\* The branch of toMatchMCPError that applies the regular expression.
TestsRegExp(error, exp) ==
  /\ Truthy(error) /\ TypeOf(error) = "object"
  /\ StrictEq(Get(exp, "code"), Undefined) \/ StrictEq(Get(error, "code"), Get(exp, "code"))
  /\ Get(exp, "message").t = "regexp"

\* toMatchMCPError(received, expected), for an expected that is an object.
toMatchMCPError(error, exp) ==
  IF ~Truthy(error) \/ TypeOf(error) # "object" THEN Pass(FALSE)
  ELSE IF /\ ~StrictEq(Get(exp, "code"), Undefined)
          /\ ~StrictEq(Get(error, "code"), Get(exp, "code"))
    THEN Pass(FALSE)
  ELSE IF StrictEq(Get(exp, "message"), Undefined) THEN Pass(TRUE)
  ELSE IF TypeOf(Get(exp, "message")) = "string"
    THEN Pass(StrictEq(Get(error, "message"), Get(exp, "message")))
  ELSE Pass(RegExpTest(Get(exp, "message"), MessageOrEmpty(error)).result)

\* expected after toMatchMCPError(received, expected): its regular expression
\* with the lastIndex that test left.
AfterTest(error, exp) ==
  IF TestsRegExp(error, exp)
    THEN Obj([exp.f EXCEPT !.message.lastIndex =
                 RegExpTest(exp.f.message, MessageOrEmpty(error)).lastIndex])
    ELSE exp

\* The values toMatchMCPError is applied to.
ErrorValues ==
  {Undefined, Null, Str(<<"a">>)} \cup
  { Obj(Rec([code |-> c, message |-> m, data |-> d])) :
      c \in {Absent, Num(1), Num(2)},
      m \in {Absent, Str(<<>>), Str(<<"a">>), Str(<<"b", "A">>), Str(<<"a", "b", "a">>)},
      d \in {Absent, Num(1)} }

\* Regular expressions in the state they are written in.
RegExps ==
  { RegExp(src, i, g) :
      src \in {<<>>, <<"a">>, <<"b", "a">>}, i \in BOOLEAN, g \in BOOLEAN }

\* Its argument: a Partial<MCPError> whose message may be a RegExp.
ErrorExpecteds ==
  { Obj(Rec([code |-> c, message |-> m])) :
      c \in {Absent, Num(1)},
      m \in {Absent, Str(<<>>), Str(<<"a">>)} \cup RegExps }

\* The matcher applied and what came of it.
Verdict(m, res) == [matcher |-> m, res |-> res]

\* An assertion is about to be made: a value and what is expected of it.
MatcherInit ==
  /\ NoSession /\ NoMock
  /\ \/ received \in ToolValues /\ expected = Undefined
     \/ received \in ResponseValues /\ expected \in ResponseExpecteds
     \/ received \in ErrorValues /\ expected \in ErrorExpecteds
  /\ verdict = Verdict("none", Undefined)

\* expect(received).toBeValidMCPTool()
ExpectToBeValidMCPTool ==
  /\ verdict' = Verdict("toBeValidMCPTool", toBeValidMCPTool(received))
  /\ UNCHANGED <<received, expected, clientVars, ambientEnv, mockVars>>

\* expect(received).toMatchMCPToolResponse(expected)
ExpectToMatchMCPToolResponse ==
  /\ verdict' = Verdict("toMatchMCPToolResponse",
                        toMatchMCPToolResponse(received, expected))
  /\ UNCHANGED <<received, expected, clientVars, ambientEnv, mockVars>>

\* expect(received).toMatchMCPError(expected)
ExpectToMatchMCPError ==
  /\ expected.t = "object"
  /\ verdict' = Verdict("toMatchMCPError", toMatchMCPError(received, expected))
  /\ expected' = AfterTest(received, expected)
  /\ UNCHANGED <<received, clientVars, ambientEnv, mockVars>>

MatcherNext ==
  \/ ExpectToBeValidMCPTool
  \/ ExpectToMatchMCPToolResponse
  \/ ExpectToMatchMCPError

MatcherSpec == MatcherInit /\ [][MatcherNext]_vars

\* ---------------------------------------------------------- MockMCPServer
\* The default schema of mockTool(): { type: 'object', properties: {} }.
ObjectSchema == Obj([type |-> Str(Word("object")), properties |-> Obj(<<>>)])

\* What a handler does with its arguments: it returns a result made of them,
\* or it throws.
ToolHandlers == {"sum", "echo", "fail"}

ToolArgs == {"x", "y"}

Apply(h, args) ==
  IF h = "fail"
    THEN Rejected([message |-> "handler failed", args |-> args])
    ELSE Resolved([by |-> h, args |-> args])

\* The MockTool values that are registered: two names, each with two
\* definitions that differ in description, schema and handler.
MockTools ==
  { [name |-> "add", description |-> Str(Word("adds")), inputSchema |-> ObjectSchema,
     handler |-> "sum"],
    [name |-> "add", description |-> Undefined, inputSchema |-> Undefined,
     handler |-> "fail"],
    [name |-> "echo", description |-> Str(Word("echoes")), inputSchema |-> ObjectSchema,
     handler |-> "echo"],
    [name |-> "echo", description |-> Undefined, inputSchema |-> ObjectSchema,
     handler |-> "sum"] }

\* The names callTool() is called with.
ToolNames == {"add", "echo", "missing"}

\* The MockResource values that are registered: two uris, one of them with
\* two definitions that differ in name, mimeType and handler.
MockResources ==
  { [uri |-> "file:a", name |-> "a", description |-> Undefined,
     mimeType |-> Undefined, handler |-> "echo"],
    [uri |-> "file:a", name |-> "a2", description |-> Undefined,
     mimeType |-> Str(Word("text")), handler |-> "fail"],
    [uri |-> "file:b", name |-> "b", description |-> Undefined,
     mimeType |-> Undefined, handler |-> "echo"] }

\* The uris readResource() is called with.
ResourceUris == {"file:a", "file:b", "file:missing"}

SeqsUpTo(S, n) == UNION {[1..k -> S] : k \in 0..n}

\* Map.prototype.set that leaves an entry that is there as it is.
MapSet_keepsFirst(m, k, v) ==
  IF \E i \in 1..Len(m) : m[i].key = k
    THEN m
    ELSE Append(m, [key |-> k, value |-> v])

\* Map.prototype.set: the value of an entry that is there is replaced in its
\* place, a new entry goes to the end.
MapSet(m, k, v) ==
  IF \E i \in 1..Len(m) : m[i].key = k
    THEN [i \in 1..Len(m) |-> IF m[i].key = k THEN [key |-> k, value |-> v] ELSE m[i]]
    ELSE Append(m, [key |-> k, value |-> v])

MapHas(m, k) == \E i \in 1..Len(m) : m[i].key = k

\* Map.prototype.get, for a key that is there.
MapGet(m, k) == m[CHOOSE i \in 1..Len(m) : m[i].key = k].value

\* for (const tool of config.tools) this.tools.set(tool.name, tool)
RECURSIVE RegisterAll(_, _)
RegisterAll(m, list) ==
  IF list = <<>> THEN m
  ELSE RegisterAll(MapSet(m, Head(list).name, Head(list)), Tail(list))

\* for (const resource of config.resources)
\*   this.resources.set(resource.uri, resource)
\* A registry of resources that is keyed by the name of the resource.
ResourceKey_byName(resource) == resource.name

\* this.resources.set(resource.uri, resource): the key of a resource is its uri.
ResourceKey(resource) == resource.uri

RECURSIVE RegisterAllResources(_, _)
RegisterAllResources(m, list) ==
  IF list = <<>> THEN m
  ELSE RegisterAllResources(MapSet(m, ResourceKey(Head(list)), Head(list)),
                            Tail(list))

\* new MockMCPServer(config), config.tools and config.resources absent or any
\* lists of tools and resources.
MockInit ==
  /\ \E list \in SeqsUpTo(MockTools, MaxConfigTools) :
       /\ tools = RegisterAll(<<>>, list)
       /\ registered = list
  /\ \E list \in SeqsUpTo(MockResources, MaxConfigResources) :
       /\ resources = RegisterAllResources(<<>>, list)
       /\ registeredResources = list
  /\ mockCall = [name |-> "none"]
  /\ got = [op |-> "constructor"]
  /\ NoSession
  /\ NoMatcher

\* addTool(tool)
addTool(tool) ==
  /\ Len(registered) < MaxRegistrations
  /\ tools' = MapSet(tools, tool.name, tool)
  /\ registered' = Append(registered, tool)
  /\ got' = [op |-> "addTool", res |-> Resolved(Undefined)]
  /\ UNCHANGED <<resources, registeredResources, mockCall, clientVars, matcherVars>>

\* addResource(resource)
addResource(resource) ==
  /\ Len(registeredResources) < MaxResourceRegistrations
  /\ resources' = MapSet(resources, ResourceKey(resource), resource)
  /\ registeredResources' = Append(registeredResources, resource)
  /\ got' = [op |-> "addResource", res |-> Resolved(Undefined)]
  /\ UNCHANGED <<tools, registered, mockCall, clientVars, matcherVars>>

\* Array.from(this.tools.values()).map(...): name, description and inputSchema
\* of every entry, in the order of the entries.
ToolList ==
  [i \in 1..Len(tools) |->
     [name |-> tools[i].value.name,
      description |-> tools[i].value.description,
      inputSchema |-> tools[i].value.inputSchema]]

\* getTools()
getTools ==
  /\ got' = [op |-> "getTools", res |-> Resolved(List(ToolList))]
  /\ UNCHANGED <<tools, resources, registered, registeredResources, mockCall,
                 clientVars, matcherVars>>

\* Array.from(this.resources.values()).map(...): uri, name, description and
\* mimeType of every entry, in the order of the entries.
ResourceList ==
  [i \in 1..Len(resources) |->
     [uri |-> resources[i].value.uri,
      name |-> resources[i].value.name,
      description |-> resources[i].value.description,
      mimeType |-> resources[i].value.mimeType]]

\* getResources()
getResources ==
  /\ got' = [op |-> "getResources", res |-> Resolved(List(ResourceList))]
  /\ UNCHANGED <<tools, resources, registered, registeredResources, mockCall,
                 clientVars, matcherVars>>

\* An error that does not say which tool was asked for.
ToolNotFound_unnamed(name) == [message |-> "Tool not found", name |-> ""]

\* new Error(`Tool '${name}' not found`)
ToolNotFound(name) == [message |-> "Tool not found", name |-> name]

\* new Error(`Resource '${uri}' not found`)
ResourceNotFound(uri) == [message |-> "Resource not found", uri |-> uri]

\* callTool(name, args) up to its await: the tool is looked up and its handler
\* is called with args, or the call throws for a name that is not there.
\* at is the number of registrations made before the call.
MockCallTool(name, args) ==
  /\ mockCall.name = "none"
  /\ IF ~MapHas(tools, name) THEN
       /\ got' = [op |-> "callTool", phase |-> "invoke", name |-> name,
                  args |-> args, res |-> Rejected(ToolNotFound(name))]
       /\ UNCHANGED mockCall
     ELSE
       /\ mockCall' = [op |-> "callTool", name |-> name, args |-> args,
                       handler |-> MapGet(tools, name).handler,
                       at |-> Len(registered)]
       /\ got' = [op |-> "callTool", phase |-> "invoke", name |-> name,
                  args |-> args, res |-> NoResult]
  /\ UNCHANGED <<tools, resources, registered, registeredResources,
                 clientVars, matcherVars>>

\* readResource(uri) up to its await: the resource is looked up and its
\* handler is called with uri, or the call throws for a uri that is not there.
MockReadResource(uri) ==
  /\ mockCall.name = "none"
  /\ IF ~MapHas(resources, uri) THEN
       /\ got' = [op |-> "readResource", phase |-> "invoke", name |-> uri,
                  args |-> uri, res |-> Rejected(ResourceNotFound(uri))]
       /\ UNCHANGED mockCall
     ELSE
       /\ mockCall' = [op |-> "readResource", name |-> uri, args |-> uri,
                       handler |-> MapGet(resources, uri).handler,
                       at |-> Len(registeredResources)]
       /\ got' = [op |-> "readResource", phase |-> "invoke", name |-> uri,
                  args |-> uri, res |-> NoResult]
  /\ UNCHANGED <<tools, resources, registered, registeredResources,
                 clientVars, matcherVars>>

\* await tool.handler(args) or await resource.handler(uri) settles, and
\* callTool() or readResource() settles with it.
MockCallSettle ==
  /\ mockCall.name # "none"
  /\ got' = [op |-> mockCall.op, phase |-> "settle", name |-> mockCall.name,
             args |-> mockCall.args, at |-> mockCall.at,
             res |-> Apply(mockCall.handler, mockCall.args)]
  /\ mockCall' = [name |-> "none"]
  /\ UNCHANGED <<tools, resources, registered, registeredResources,
                 clientVars, matcherVars>>

MockNext ==
  \/ \E tool \in MockTools : addTool(tool)
  \/ \E resource \in MockResources : addResource(resource)
  \/ getTools
  \/ getResources
  \/ \E name \in ToolNames, args \in ToolArgs : MockCallTool(name, args)
  \/ \E uri \in ResourceUris : MockReadResource(uri)
  \/ MockCallSettle

MockSpec == MockInit /\ [][MockNext]_vars

\* =============================================================== properties

\* The step taken last settled a connect() that had spawned a process by failing.
ConnectFailedAfterSpawn ==
  /\ ev.op = "connect"
  /\ ev.res.kind = "rejected"
  /\ ev.proc # 0

\* C1: when connect() has rejected after it spawned the server process (its
\* stdio streams missing, or the handshake rejecting), the process that attempt
\* spawned is not running and the Session is not left partially connected:
\* connected is false and it holds no handle of a live process or transport.
C1_FailedConnectLeavesNothing ==
  ConnectFailedAfterSpawn =>
    /\ ~Live(ev.proc)
    /\ ~initialized
    /\ process # 0 => ~Live(process)
    /\ transport # 0 => transports[transport].state # "started"

\* The live transports: started and not closed.
LiveTransports ==
  {t \in 1..Len(transports) : transports[t].state = "started"}

\* C2: in every reachable state at most one process started on behalf of the
\* Session is live, counting the one connect() spawns and the one its transport
\* starts; and when connect() has resolved exactly one process and one
\* transport are live.
C2_AtMostOneLiveProcess ==
  /\ Cardinality(LiveProcs) <= 1
  /\ (ev.op = "connect" /\ ev.res.kind = "resolved") =>
       (Cardinality(LiveProcs) = 1 /\ Cardinality(LiveTransports) = 1)

\* C3: a remote-call operation invoked while the Session is not connected
\* fails with the not-connected error in the step that invokes it, hands the
\* client no request, and changes nothing of the Session, the processes, the
\* transports or the suspended operations.
C3_NotConnectedCallsFail ==
  [][ (~initialized /\ ev'.phase = "invoke" /\ ev'.op \in RemoteOps) =>
        /\ ev'.res = Rejected(NotConnectedError)
        /\ ~ev'.sent
        /\ ev'.requests = 0
        /\ UNCHANGED <<session, procs, transports, clientTransport, pc, op, attempt>>
    ]_vars

\* A remote call was refused on a Session that had been connected and was
\* disconnected again.
C3_Witness ==
  /\ ev.phase = "invoke"
  /\ ev.op = "callTool"
  /\ ev.res = Rejected(NotConnectedError)
  /\ ~initialized
  /\ \E p \in 1..Len(procs) : procs[p].state = "killed"

\* C4: connect() invoked on a connected Session fails with the
\* already-connected error, spawns no process, creates no transport and leaves
\* connected, the process handle and the transport handle as they were.
C4_SecondConnectRefused ==
  [][ (initialized /\ ev'.phase = "invoke" /\ ev'.op = "connect") =>
        /\ ev'.res = Rejected(AlreadyConnectedError)
        /\ ev'.spawned = 0
        /\ initialized'
        /\ UNCHANGED <<session, procs, transports, clientTransport, pc, op, attempt>>
    ]_vars

\* connect() was refused on a Session that is connected and holds its handles.
C4_Witness ==
  /\ ev.phase = "invoke"
  /\ ev.op = "connect"
  /\ ev.res = Rejected(AlreadyConnectedError)
  /\ initialized
  /\ process # 0
  /\ transport # 0

\* C5: connected is true exactly when the transport handle is set and the
\* protocol client is live; the transport handle is never set while connected
\* is false; connected is never true while the client is closing.  The first
\* two are stated of the states in which no operation is suspended.
C5_ConnectedIffLive ==
  /\ Quiescent => (initialized <=> (transport # 0 /\ ClientLive))
  /\ Quiescent => (~initialized => transport = 0)
  /\ initialized => \A c \in Callers : pc[c] # "disconnect_await"

\* C6: a disconnect() that went past its guard settles by resolving, whether
\* the client's close resolved or threw; in that step the process the handle
\* referred to is sent the termination signal, the process and transport
\* handles become null and connected becomes false.
C6_DisconnectNeverFails ==
  [][ (ev'.op = "disconnect" /\ ev'.phase = "settle") =>
        /\ ev'.res = Resolved(Undefined)
        /\ process # 0 => (ev'.killed = process /\ procs'[process].state # "running")
        /\ process' = 0
        /\ transport' = 0
        /\ ~initialized'
        /\ pc'[ev'.who] = "idle"
    ]_vars

\* A disconnect() resolved although the client's close threw, and it had a
\* running process to signal.
C6_Witness ==
  /\ ev.op = "disconnect"
  /\ ev.phase = "settle"
  /\ ev.closeThrew
  /\ ev.res = Resolved(Undefined)
  /\ ev.killed # 0
  /\ procs[ev.killed].state = "killed"
  /\ ~initialized

\* C7: disconnect() never throws, and a disconnect() invoked while the Session
\* is not connected resolves at once, calls neither the client's close nor the
\* process's kill and changes nothing.
C7_DisconnectIdempotent ==
  [][ /\ ev'.op = "disconnect" => ev'.res.kind # "rejected"
      /\ (~initialized /\ ev'.op = "disconnect" /\ ev'.phase = "invoke") =>
           /\ ev'.res = Resolved(Undefined)
           /\ ~ev'.closed
           /\ ev'.killed = 0
           /\ UNCHANGED <<session, procs, transports, clientTransport, pc, op,
                          attempt>>
    ]_vars

\* A disconnect() was a no-op on a Session that an earlier disconnect() had
\* taken down after a successful connect().
C7_Witness ==
  /\ ev.op = "disconnect"
  /\ ev.phase = "invoke"
  /\ ev.res = Resolved(Undefined)
  /\ ~initialized
  /\ process = 0
  /\ \E p \in 1..Len(procs) : procs[p].owner = "session" /\ procs[p].state = "killed"

\* The step taken last settled the remote call of caller c.
CallSettled(c) ==
  /\ ev.who = c
  /\ ev.phase = "settle"
  /\ ev.op \in RequestOps
  /\ ev.res.kind \in {"resolved", "rejected"}

\* The step taken last completed the disconnect() of caller d.
DisconnectCompleted(d) ==
  /\ ev.who = d
  /\ ev.phase = "settle"
  /\ ev.op = "disconnect"
  /\ ev.res.kind = "resolved"
  /\ ~initialized

\* disconnect() of d is awaiting the client's close while the remote call of c
\* is awaiting its response.
DisconnectWhileCallPending(c, d) ==
  /\ pc[c] = "call_await"
  /\ pc[d] = "disconnect_await"

\* C8: when disconnect() is invoked while a remote call is pending, the call
\* eventually settles (resolved or rejected) and disconnect() eventually
\* completes, leaving connected false.  The callers are interchangeable: the
\* property is stated of c1's call and c2's disconnect().
C8_DisconnectWithPendingCall ==
  /\ DisconnectWhileCallPending("c1", "c2") ~> CallSettled("c1")
  /\ DisconnectWhileCallPending("c1", "c2") ~> DisconnectCompleted("c2")

\* A disconnect() is awaiting the close while a callTool is pending.
C8_Witness ==
  /\ pc["c1"] = "call_await"
  /\ op["c1"] = "callTool"
  /\ pc["c2"] = "disconnect_await"
  /\ ev.who = "c2"
  /\ ev.closed

\* C9: on a Session whose transport is not 'stdio', connect() fails with the
\* configuration error naming the transport and spawns nothing: no process and
\* no transport ever exists, the Session is never connected and its handles
\* stay null.
C9_NonStdioRefused ==
  config.transport # "stdio" =>
    /\ ev.op = "connect" =>
         (ev.res = Rejected(ConfigurationError(config.transport)) /\ ev.spawned = 0)
    /\ procs = <<>>
    /\ transports = <<>>
    /\ ~initialized
    /\ process = 0
    /\ transport = 0

\* connect() was refused on a Session configured for the 'sse' transport.
C9_Witness ==
  /\ config.transport = "sse"
  /\ ev.op = "connect"
  /\ ev.phase = "invoke"
  /\ ev.res.kind = "rejected"

\* C10: when the server answers the request of a remote-call operation with a
\* protocol error, the operation rejects with that error, its code, message and
\* data as the server sent them, and it handed the client exactly one request.
C10_ProtocolErrorPropagates ==
  (ev.phase = "settle" /\ ev.served.kind = "rejected") =>
    /\ ev.op \in RequestOps
    /\ ev.res.kind = "rejected"
    /\ ev.res.error = ev.served.error
    /\ ev.requests = 1
    /\ pc[ev.who] = "idle"

\* callTool rejected with the server's invalid-params error, code -32602.
C10_Witness ==
  /\ ev.phase = "settle"
  /\ ev.op = "callTool"
  /\ ev.served.kind = "rejected"
  /\ ev.res.kind = "rejected"
  /\ ev.res.error.code = -32602
  /\ ev.res.error.message = "Division by zero"

\* The step taken last settled the operation o with a response of the server.
Answered(o) ==
  /\ ev.op = o
  /\ ev.phase = "settle"
  /\ ev.served.kind = "resolved"

\* C14: readResource on a connected Session resolves with the first element of
\* the contents array the server reported, whenever that array has one entry
\* or more.
C14_ReadResourceReturnsFirst ==
  (/\ Answered("readResource")
   /\ ev.served.value.has
   /\ Len(ev.served.value.items) >= 1) =>
    /\ ev.res.kind = "resolved"
    /\ ev.res.value.t = "item"
    /\ ev.res.value.item = ev.served.value.items[1]

\* readResource resolved with "a" of the reported contents "a", "b".
C14_Witness ==
  /\ Answered("readResource")
  /\ ev.served.value.has
  /\ ev.served.value.items = <<"a", "b">>
  /\ ev.res = Resolved(Item("a"))

\* C15: listTools, listResources and listPrompts on a connected Session
\* resolve with the sequence the server reported, the same entries in the same
\* order; when the server reports none, the list empty or absent, they resolve
\* with the empty sequence and do not fail.
C15_ListsVerbatimOrEmpty ==
  \A o \in ListOps :
    Answered(o) =>
      /\ ev.res.kind = "resolved"
      /\ ev.res.value.t = "list"
      /\ ev.served.value.has =>
           /\ Len(ev.res.value.items) = Len(ev.served.value.items)
           /\ \A i \in 1..Len(ev.served.value.items) :
                ev.res.value.items[i] = ev.served.value.items[i]
      /\ (~ev.served.value.has \/ ev.served.value.items = <<>>) =>
           ev.res.value.items = <<>>

\* listTools resolved with the empty sequence for a response without a list.
C15_Witness ==
  /\ Answered("listTools")
  /\ ~ev.served.value.has
  /\ ev.res = Resolved(List(<<>>))
  /\ initialized

\* env is the ambient environment overlaid with the configured one.
Overlaid(env) ==
  /\ DOMAIN env \subseteq DOMAIN ambientEnv \cup DOMAIN config.env
  /\ \A k \in DOMAIN config.env :
       config.env[k] # UndefinedValue => (k \in DOMAIN env /\ env[k] = config.env[k])
  /\ \A k \in DOMAIN ambientEnv \ DOMAIN config.env :
       k \in DOMAIN env /\ env[k] = ambientEnv[k]
  /\ \A k \in DOMAIN env : env[k] # UndefinedValue

\* C13: the environment every process is spawned with, and the one every
\* transport is constructed with, is the ambient environment overlaid with the
\* configured one: a configured entry with a defined value overrides the
\* ambient value of its key, a key of the ambient environment alone keeps its
\* value, and no entry is undefined.
C13_EffectiveEnvironment ==
  /\ \A p \in 1..Len(procs) : Overlaid(procs[p].env)
  /\ \A t \in 1..Len(transports) : Overlaid(transports[t].env)

\* The process connect() spawned got DEBUG as configured over the ambient
\* value, and no PATH, which is configured undefined.
C13_Witness ==
  /\ ambientEnv = [k \in {"PATH", "DEBUG"} |-> "a"]
  /\ config.env = [k \in {"PATH", "DEBUG"} |->
                     IF k = "PATH" THEN UndefinedValue ELSE "b"]
  /\ process # 0
  /\ procs[process].env = [k \in {"DEBUG"} |-> "b"]
  /\ transport # 0
  /\ transports[transport].env = procs[process].env

ConnectFailures ==
  {AlreadyConnectedError, LaunchError, HandshakeError} \cup
  {ConfigurationError(t) : t \in TransportType}

\* C12: createMCPTestClient(config) resolves only with a Session whose
\* connect() completed: in the step that resolves it connected is true, the
\* callers hold the Session, and the remote call invoked next is not refused
\* as not connected.  When connect() fails the factory rejects with that
\* failure and no caller holds a Session.  Nobody comes to hold a Session by
\* another step.
C12_FactoryHandsConnectedSession ==
  [][ /\ (ev'.op = "createMCPTestClient" /\ ev'.res.kind = "resolved") =>
           /\ ev'.res.value = SessionRef
           /\ initialized'
           /\ ensureConnected'
           /\ \A c \in Callers : pc'[c] = "idle"
      /\ (ev'.op = "createMCPTestClient" /\ ev'.res.kind = "rejected") =>
           /\ ev'.res.error \in ConnectFailures
           /\ ~initialized'
           /\ \A c \in Callers : pc'[c] = "outside"
      /\ (\E c \in Callers : pc[c] = "outside" /\ pc'[c] = "idle") =>
           (ev'.op = "createMCPTestClient" /\ ev'.res.kind = "resolved")
      /\ (/\ ev.op = "createMCPTestClient"
          /\ ev.res.kind = "resolved"
          /\ ev'.op \in RemoteOps
          /\ ev'.phase = "invoke") =>
           ev'.res # Rejected(NotConnectedError)
    ]_vars

\* The request of a callTool went out on the Session the factory returned,
\* over the connection the factory made.
C12_Witness ==
  /\ ev.op = "callTool"
  /\ ev.phase = "invoke"
  /\ ev.sent
  /\ Len(procs) = 2
  /\ initialized
  /\ \A c \in Callers : pc[c] # "outside"

\* The step taken last ended a connect() in one of its failures: unsupported
\* transport, missing process streams, failed handshake.
ConnectFailed ==
  /\ ev.op = "connect"
  /\ ev.res.kind = "rejected"
  /\ ev.res.error # AlreadyConnectedError

\* C20: when connect() has failed, for an unsupported transport, for missing
\* process streams or for a failed handshake, the Session is not connected; a
\* connect() invoked next is not refused as already connected and a
\* disconnect() invoked next resolves; and every connect() whose spawn and
\* handshake succeed leaves the Session connected, also after a failure.
\* Stated of callers that await each operation before they invoke the next.
C20_RetryAfterFailedConnect ==
  [][ /\ ConnectFailed' => ~initialized'
      /\ (ConnectFailed /\ ev'.op = "connect" /\ ev'.phase = "invoke") =>
           ev'.res # Rejected(AlreadyConnectedError)
      /\ (ConnectFailed /\ ev'.op = "disconnect") =>
           ev'.res = Resolved(Undefined)
      /\ (ev'.op = "connect" /\ ev'.res.kind = "resolved") => initialized'
    ]_vars

\* A connect() brought the Session to connected after an earlier connect()
\* had failed and left its process running.
C20_Witness ==
  /\ ev.op = "connect"
  /\ ev.res.kind = "resolved"
  /\ initialized
  /\ \E p \in 1..Len(procs) :
       /\ p < process
       /\ procs[p].owner = "session"
       /\ procs[p].state = "running"

\* The names registered in log.
RegisteredNames(log) == {log[i].name : i \in 1..Len(log)}

\* The registration made last in log under name.
LatestOf(log, name) ==
  log[CHOOSE i \in 1..Len(log) :
        /\ log[i].name = name
        /\ \A j \in (i + 1)..Len(log) : log[j].name # name]

\* C16: after the constructor's registrations and any addTool calls, getTools()
\* lists every registered name once, with the description and the inputSchema
\* registered last under it; callTool(name, args) of a registered name is not
\* refused and settles as the handler applied to args does that was
\* registered last under the name when callTool was called.
C16_MockListsAndDispatches ==
  /\ got.op = "getTools" =>
       LET listed == got.res.value.items IN
       /\ Len(listed) = Cardinality(RegisteredNames(registered))
       /\ \A n \in RegisteredNames(registered) :
            \E i \in 1..Len(listed) :
              /\ listed[i].name = n
              /\ listed[i].description = LatestOf(registered, n).description
              /\ listed[i].inputSchema = LatestOf(registered, n).inputSchema
  /\ (got.op = "callTool" /\ got.phase = "invoke"
        /\ got.name \in RegisteredNames(registered)) =>
       /\ got.res = NoResult
       /\ mockCall.handler = LatestOf(registered, got.name).handler
  /\ (got.op = "callTool" /\ got.phase = "settle") =>
       got.res = Apply(LatestOf(SubSeq(registered, 1, got.at), got.name).handler,
                       got.args)

\* callTool("add", "x") returned what the handler registered second under
\* "add" makes of "x", a failure, after a registration under another name.
C16_Witness ==
  /\ got.op = "callTool"
  /\ got.phase = "settle"
  /\ got.name = "add"
  /\ got.res = Apply("fail", "x")
  /\ Len(registered) = 3
  /\ registered[1].handler = "sum"
  /\ registered[2].name = "add"
  /\ registered[3].name = "echo"


\* ------------------------------------------------------------- matchers

\* v is an object of the language: not a primitive, not null, not undefined.
IsObjectValue(v) == v.t \in {"object", "array", "regexp"}

\* v with no other properties than those named.
Keep(v, keys) ==
  IF v.t = "object" THEN Obj([k \in DOMAIN v.f \cap keys |-> v.f[k]]) ELSE v

\* A tool by the letter of the contract: an object, a name that is a string
\* with a character that is no white space, an inputSchema that is an object
\* whose type is 'object'.
ValidToolShape(v) ==
  /\ IsObjectValue(v)
  /\ Get(v, "name").t = "string"
  /\ \E j \in 1..Len(Get(v, "name").s) : Get(v, "name").s[j] \notin WhiteSpace
  /\ IsObjectValue(Get(v, "inputSchema"))
  /\ Get(Get(v, "inputSchema"), "type") = Str(Word("object"))

\* v with its name and the type of its inputSchema and nothing more.
NameAndSchemaType(v) ==
  IF v.t = "object" /\ "inputSchema" \in DOMAIN v.f
    THEN Obj([k \in {"name", "inputSchema"} \cap DOMAIN v.f |->
                IF k = "inputSchema" THEN Keep(v.f[k], {"type"}) ELSE v.f[k]])
    ELSE Keep(v, {"name"})

\* C17: toBeValidMCPTool passes for a value if and only if it is an object
\* whose name is a string that is not empty after trimming and whose
\* inputSchema is an object with type 'object'; the verdict is that of the
\* value without its description and without the properties and required of
\* its inputSchema.
C17_ValidToolIffNameAndSchema ==
  verdict.matcher = "toBeValidMCPTool" =>
    /\ verdict.res = Pass(ValidToolShape(received))
    /\ verdict.res = toBeValidMCPTool(NameAndSchemaType(received))

\* A tool with a padded name, a description that is no string and a schema
\* with properties and required has passed.
C17_Witness ==
  /\ verdict.matcher = "toBeValidMCPTool"
  /\ verdict.res = Pass(TRUE)
  /\ Get(received, "name") = Str(<<" ", "a">>)
  /\ Get(received, "description") = Num(1)
  /\ Get(Get(received, "inputSchema"), "required") # Undefined


\* A content item by the letter of the contract: it has a type, which is
\* text, image or resource.
HasContentType(item) ==
  /\ item.t = "object"
  /\ "type" \in DOMAIN item.f
  /\ item.f.type \in {Str(Word("text")), Str(Word("image")), Str(Word("resource"))}

\* A tool response by the letter of the contract, with what is expected of it.
ValidResponseShape(v, exp) ==
  /\ IsObjectValue(v)
  /\ Get(v, "content").t = "array"
  /\ Get(v, "content").items # <<>>
  /\ \A j \in 1..Len(Get(v, "content").items) :
        HasContentType(Get(v, "content").items[j])
  /\ exp # Undefined =>
        /\ Get(exp, "isError") # Undefined => Get(v, "isError") = Get(exp, "isError")
        /\ Get(exp, "content") # Undefined =>
              Len(Get(v, "content").items) = Len(Get(exp, "content").items)

\* C18: toMatchMCPToolResponse passes for a value if and only if it is an
\* object whose content is an array that is not empty and whose items all have
\* a type among text, image and resource, and, when an expected value is
\* given, the isError it specifies equals the received isError and the content
\* it specifies is as long as the received content.
C18_ResponseIffContentAndExpected ==
  verdict.matcher = "toMatchMCPToolResponse" =>
    /\ verdict.res \in {Pass(TRUE), Pass(FALSE), Threw}
    /\ verdict.res = Pass(TRUE) <=> ValidResponseShape(received, expected)

\* A response of two items has passed against an expected value that
\* specifies isError and a content of two items.
C18_Witness ==
  /\ verdict.matcher = "toMatchMCPToolResponse"
  /\ verdict.res = Pass(TRUE)
  /\ expected # Undefined
  /\ Get(expected, "isError") = Bool(TRUE)
  /\ Get(Get(expected, "content"), "length") = Num(2)
  /\ Get(Get(received, "content"), "length") = Num(2)


\* The regular expression re matches str: its source occurs in it.
Matches(re, str) == \E k \in 0..Len(str) : MatchAt(re, str, k)

\* The message of v as a string, a missing one being the empty string.
MessageOf(v) ==
  IF Get(v, "message").t = "string" THEN Get(v, "message").s ELSE <<>>

\* An error by the letter of the contract, with what is expected of it.
MatchesExpectedError(v, exp) ==
  /\ IsObjectValue(v)
  /\ Get(exp, "code") # Undefined => Get(v, "code") = Get(exp, "code")
  /\ Get(exp, "message").t = "string" => Get(v, "message") = Get(exp, "message")
  /\ Get(exp, "message").t = "regexp" => Matches(Get(exp, "message"), MessageOf(v))

\* C19: toMatchMCPError(expected) passes for a received value if and only if
\* it is an object, its code equals expected.code whenever that is given, and
\* its message equals expected.message when that is a string or matches it
\* when that is a regular expression, a missing message being the empty
\* string; no other field of the received value counts.
C19_ErrorIffCodeAndMessage ==
  verdict.matcher = "toMatchMCPError" =>
    (verdict.res = Pass(TRUE) <=> MatchesExpectedError(received, expected))


\* ------------------------------------------------------ overlapping calls

\* The processes the Session spawned itself (line 83) that are live.
LiveSpawned == {p \in LiveProcs : procs[p].owner = "session"}

\* C21: under any interleaving of connect() calls, connect() never overwrites
\* a process handle that refers to a process not yet sent the termination
\* signal: every process the Session spawned and has not killed is the one its
\* process handle refers to, where disconnect() can reach it.
C21_SpawnedProcessStaysReferenced ==
  \A p \in LiveSpawned : process = p


\* A disconnect() that found the Session connected is under way: it awaits
\* the client's close.
DisconnectUnderWay == \E d \in Callers : pc[d] = "disconnect_await"

\* C22: once disconnect() has been invoked on a connected Session, every
\* remote-call operation started afterwards, also one started while
\* disconnect() still awaits the client's close, fails with the not-connected
\* error and hands the protocol client no request.
C22_NoRemoteCallOnceDisconnecting ==
  [][ ((DisconnectUnderWay \/ ~initialized)
         /\ ev'.phase = "invoke" /\ ev'.op \in RemoteOps) =>
        /\ ev'.res = Rejected(NotConnectedError)
        /\ ~ev'.sent
    ]_vars


\* The connect() of caller c awaits the handshake, the Session is not
\* connected, and its process handle refers to the process that connect()
\* spawned.
ConnectPending(c) ==
  /\ pc[c] = "connect_await"
  /\ ~initialized
  /\ process = attempt[c].proc

\* C23: disconnect() invoked while connect() still awaits the handshake
\* (connected still false) returns at once: it does not call the client's
\* close, kills no process and changes nothing.  When the handshake then
\* completes the Session becomes connected, with the process connect()
\* spawned still referenced and in the state it was in, not signalled.
C23_DisconnectDuringHandshakeIsNoOp ==
  [][ \A c \in Callers :
        /\ (ConnectPending(c) /\ ev'.op = "disconnect" /\ ev'.phase = "invoke") =>
             /\ ev'.res = Resolved(Undefined)
             /\ ~ev'.closed
             /\ ev'.killed = 0
             /\ UNCHANGED <<session, procs, transports, clientTransport, pc, op,
                            attempt>>
        /\ (/\ ConnectPending(c)
            /\ ev.op = "disconnect" /\ ev.phase = "invoke"
            /\ ev'.who = c /\ ev'.op = "connect" /\ ev'.res.kind = "resolved") =>
             /\ initialized'
             /\ process' = attempt[c].proc
             /\ procs'[process'] = procs[process]
             /\ procs'[process'].state # "killed"
    ]_vars

\* disconnect() has returned while c1's connect() awaits the handshake, its
\* spawned process running and referenced.
C23_Witness ==
  /\ ev.op = "disconnect"
  /\ ev.phase = "invoke"
  /\ ev.who = "c2"
  /\ ev.res = Resolved(Undefined)
  /\ ConnectPending("c1")
  /\ Live(process)


\* C24: under any interleaving of overlapping disconnect() calls on a
\* connected Session none of them throws, no process is sent the termination
\* signal twice, and when the last of them has completed the Session is not
\* connected and its process and transport handles are null.
C24_OverlappingDisconnects ==
  [][ /\ ev'.op = "disconnect" => ev'.res.kind # "rejected"
      /\ (ev'.op = "disconnect" /\ ev'.phase = "settle") =>
           /\ ev'.res = Resolved(Undefined)
           /\ ev'.killed # 0 => procs[ev'.killed].state # "killed"
           /\ ~DisconnectUnderWay' =>
                (~initialized' /\ process' = 0 /\ transport' = 0)
    ]_vars

\* The second of two overlapping disconnect() calls has completed: it found
\* the process handle cleared by the first, which had killed the process.
C24_Witness ==
  /\ ev.op = "disconnect"
  /\ ev.phase = "settle"
  /\ ev.res = Resolved(Undefined)
  /\ ev.killed = 0
  /\ Quiescent
  /\ ~initialized /\ process = 0 /\ transport = 0
  /\ Len(procs) = 2
  /\ procs[1].owner = "session" /\ procs[1].state = "killed"


\* ------------------------------------------------------------ re-entry

\* The processes the Session spawned in the connect() calls whose handshake
\* completed: connect() starts its own process and then the transport, which
\* starts the next one.
ConnectedProcs ==
  {transports[t].proc - 1 : t \in {u \in 1..Len(transports) : transports[u].ready}}

\* C25: the lifecycle can be entered again.  After a successful connect() and
\* a completed disconnect(), connect() is admitted, spawns a process that did
\* not exist before and, when the handshake succeeds, leaves the Session
\* connected; and whenever a process is spawned, every process spawned for an
\* earlier connection has been sent the termination signal, if it ever ran:
\* none of them is running.  The operations are awaited one after the other.
C25_LifecycleReenterable ==
  [][ /\ (ev.op = "disconnect" /\ ev.phase = "settle"
            /\ ev'.op = "connect" /\ ev'.phase = "invoke") =>
           /\ ev'.res # Rejected(AlreadyConnectedError)
           /\ ev'.spawned = Len(procs) + 1
           /\ process' = ev'.spawned
           /\ procs'[ev'.spawned].owner = "session"
      /\ (ev'.op = "connect" /\ ev'.phase = "settle" /\ ev'.res.kind = "resolved") =>
           /\ initialized'
           /\ process' = ev'.proc
           /\ ClientLive'
      /\ ev'.spawned # 0 =>
           \A p \in ConnectedProcs : ~Live(p)
    ]_vars

\* A second connection stands: the process of the first was killed, that of
\* the second is running.
C25_Witness ==
  /\ ev.op = "connect"
  /\ ev.phase = "settle"
  /\ ev.res.kind = "resolved"
  /\ initialized
  /\ Live(process)
  /\ process \in ConnectedProcs
  /\ \E p \in ConnectedProcs : p # process /\ procs[p].state = "killed"


\* ------------------------------------------------------------ remote calls

\* C26: a remote-call operation, whether it resolves or rejects (protocol
\* error or transport failure), leaves the connected flag, the process handle,
\* the transport handle and the resolved configuration as they were, and sends
\* no process a signal: a failed call does not move the Session to
\* not-connected and does not kill the process.
C26_RemoteCallLeavesSession ==
  [][ ev'.op \in RemoteOps =>
        /\ UNCHANGED <<initialized, process, transport, config>>
        /\ procs' = procs
        /\ transports' = transports
    ]_vars

\* A callTool has failed with the transport's error on a Session that is
\* still connected, its process running.
C26_Witness ==
  /\ ev.op = "callTool"
  /\ ev.phase = "settle"
  /\ ev.res = Rejected(TransportError)
  /\ initialized
  /\ process # 0
  /\ Live(process)
  /\ transport # 0


\* ------------------------------------------------------------ constructor

\* The value of an optional field: the one supplied, or the default.
SuppliedOr(x, default) == IF x.given THEN x.value ELSE default

\* C29: the constructor resolves the configuration so that every field left
\* out takes its default (arguments empty, environment empty, timeout 5000,
\* transport 'stdio', serverUrl empty, debug false) and every field supplied
\* keeps the value supplied, a timeout of 0 included; constructing a Session
\* spawns no process and leaves it not connected.
C29_ConstructorDefaults ==
  ev.op = "constructor" =>
    /\ config.command = argument.command
    /\ config.args = SuppliedOr(argument.args, <<>>)
    /\ config.env = (IF argument.env.given THEN argument.env.env ELSE EmptyEnv)
    /\ config.timeout = SuppliedOr(argument.timeout, 5000)
    /\ config.transport =
         (IF argument.transport = "undefined" THEN "stdio" ELSE argument.transport)
    /\ config.serverUrl = SuppliedOr(argument.serverUrl, "")
    /\ config.debug = (argument.debug = "true")
    /\ procs = <<>>
    /\ transports = <<>>
    /\ ~initialized
    /\ process = 0
    /\ transport = 0


\* ---------------------------------------------------------------- timeout

\* The errors an operation of the Session rejects with.
OperationErrors ==
  {AlreadyConnectedError, LaunchError, NotConnectedError, HandshakeError,
   TransportError}
    \cup {ConfigurationError(t) : t \in TransportType} \cup ProtocolErrors

Keys(m) == {m[i].key : i \in 1..Len(m)}

\* C30: callTool(name, args) of a name that is not registered and
\* readResource(uri) of a uri that is not registered reject with a not-found
\* error that names the missing key, in the step that invokes them; no handler
\* is called, so none is left in flight, and the registries of tools and of
\* resources are as they were.
C30_MockNotFound ==
  [][ /\ (got'.op = "callTool" /\ got'.phase = "invoke"
            /\ got'.name \notin Keys(tools)) =>
           /\ got'.res = Rejected([message |-> "Tool not found", name |-> got'.name])
           /\ mockCall'.name = "none"
           /\ UNCHANGED <<tools, resources, mockCall>>
      /\ (got'.op = "readResource" /\ got'.phase = "invoke"
            /\ got'.name \notin Keys(resources)) =>
           /\ got'.res = Rejected([message |-> "Resource not found", uri |-> got'.name])
           /\ mockCall'.name = "none"
           /\ UNCHANGED <<tools, resources, mockCall>>
    ]_vars

\* readResource of a uri that is not registered was refused by a server that
\* has a tool and another resource registered.
C30_Witness ==
  /\ got.op = "readResource"
  /\ got.phase = "invoke"
  /\ got.name = "file:missing"
  /\ got.res.kind = "rejected"
  /\ tools # <<>>
  /\ resources # <<>>


\* The uris registered in log.
RegisteredUris(log) == {log[i].uri : i \in 1..Len(log)}

\* The registration made last in log under uri.
LatestResource(log, uri) ==
  log[CHOOSE i \in 1..Len(log) :
        /\ log[i].uri = uri
        /\ \A j \in (i + 1)..Len(log) : log[j].uri # uri]

\* No two entries of a registry have the same key.
NoKeyTwice(m) == \A i, j \in 1..Len(m) : m[i].key = m[j].key => i = j

\* Each registry holds one entry for every name or uri registered so far, the
\* one registered last under it; a listing names nothing twice; a call is
\* dispatched to the handler registered last when it was made.
RegistriesHoldLatest ==
  /\ NoKeyTwice(tools)
  /\ Keys(tools) = RegisteredNames(registered)
  /\ \A n \in RegisteredNames(registered) :
       MapGet(tools, n) = LatestOf(registered, n)
  /\ NoKeyTwice(resources)
  /\ Keys(resources) = RegisteredUris(registeredResources)
  /\ \A u \in RegisteredUris(registeredResources) :
       MapGet(resources, u) = LatestResource(registeredResources, u)
  /\ got.op = "getTools" =>
       LET listed == got.res.value.items IN
       /\ {listed[i].name : i \in 1..Len(listed)} = RegisteredNames(registered)
       /\ \A i, j \in 1..Len(listed) : listed[i].name = listed[j].name => i = j
  /\ got.op = "getResources" =>
       LET listed == got.res.value.items IN
       /\ {listed[i].uri : i \in 1..Len(listed)}
            = RegisteredUris(registeredResources)
       /\ \A i, j \in 1..Len(listed) : listed[i].uri = listed[j].uri => i = j
  /\ (got.op = "callTool" /\ got.phase = "invoke"
        /\ got.name \in RegisteredNames(registered)) =>
       mockCall.handler = LatestOf(registered, got.name).handler
  /\ (got.op = "readResource" /\ got.phase = "invoke"
        /\ got.name \in RegisteredUris(registeredResources)) =>
       mockCall.handler = LatestResource(registeredResources, got.name).handler
  /\ (got.op = "callTool" /\ got.phase = "settle") =>
       got.res = Apply(LatestOf(SubSeq(registered, 1, got.at), got.name).handler,
                       got.args)
  /\ (got.op = "readResource" /\ got.phase = "settle") =>
       got.res = Apply(LatestResource(SubSeq(registeredResources, 1, got.at),
                                      got.name).handler,
                       got.args)

\* C31: after any constructor registrations and addTool and addResource
\* calls, the registries hold exactly one entry for each distinct tool name
\* and each distinct resource uri, the one registered last; getTools() and
\* getResources() list no name and no uri twice; callTool and readResource
\* dispatch to the handler registered last; and no step of callTool or of
\* readResource adds an entry to a registry or removes one.
C31_RegistriesLastWins ==
  /\ []RegistriesHoldLatest
  /\ [][got'.op \in {"callTool", "readResource"} =>
          UNCHANGED <<tools, resources>>]_vars

\* readResource("file:a") failed as the handler registered last under
\* "file:a" does, after three registrations of which the first and the third
\* are under "file:a": the registry has two entries.
C31_Witness ==
  /\ got.op = "readResource"
  /\ got.phase = "settle"
  /\ got.name = "file:a"
  /\ got.res = Apply("fail", "file:a")
  /\ Len(registeredResources) = 3
  /\ registeredResources[1].handler = "echo"
  /\ registeredResources[1].uri = "file:a"
  /\ registeredResources[2].uri = "file:b"
  /\ registeredResources[3].uri = "file:a"
  /\ Len(resources) = 2
  /\ tools # <<>>

====
